---------------------------- MODULE Spec2Model ----------------------------
(***************************************************************************)
(* Paginated fetch-and-assemble of the Welcome Home ETL utilities.         *)
(*                                                                         *)
(* Text is a sequence of one-character strings, so that the string         *)
(* operations of the code (strip, split, join, the regular expressions)    *)
(* are computed character by character.  An Optional value is a sequence   *)
(* of length 0 (None) or 1 (the value).                                    *)
(***************************************************************************)
EXTENDS Integers, Sequences, FiniteSets, TLC

VARIABLES
    \* ---- cursor extraction (one Link header, three extractors)
    hdr_links,      \* the links the server put in the header, in order
    link_header,    \* response.headers.get('Link'): Optional text
    cx_done,        \* which extractors have run
    res_util,       \* result of _get_next_page_url
    res_export,     \* next url of fetch_all_ids_from_api
    res_act,        \* next url of fetch_prospect_ids_from_activities
    \* ---- download_table_csv: the server and the file system
    srv_pages,      \* the CSV pages of the table, in server order
    srv_odd_hdr,    \* the page whose header line names other columns (0: none)
    srv_blank_at,   \* the page whose last line ends with a blank (0: none)
    srv_fail_at,    \* the page whose GET fails (0: every GET succeeds)
    fs_writable,    \* whether open(csv_file_path, 'w') succeeds
    \* ---- download_table_csv: the call
    dl_pc,          \* "idle", "open", "loop", "done" (download_table_csv
                    \* has returned), "returned" (process_table has)
    current_url,    \* Optional text
    page_count,
    total_records,
    csv_file,       \* Optional text: the content of csv_file_path
    dl_result,      \* "pending", "path" (csv_file_path) or "none" (None)
    dl_requests,    \* the URLs of the GETs issued, in order
    dl_page_records,\* lines_in_page as logged, one per page merged
    dl_page_written,\* the text written to the file for each page merged
    dl_exc,         \* the exception raised in the call, if any (Optional)
    dl_runs,        \* result and file of the earlier calls, in order
    \* ---- process_table, the caller of download_table_csv
    pt_later,       \* how the steps after the download go ("not_run": none ran)
    pt_result,      \* "pending", "True", "False" or "raised"
    \* ---- fetch_all_ids_from_api: the server
    ids_pages,      \* the pages of the table, in server order
    ids_link_style, \* how the server writes its Link headers
    ids_fail_at,    \* the page whose GET fails (0: every GET succeeds)
    \* ---- fetch_all_ids_from_api: the call
    table_name,
    fa_pc,          \* "idle", "loop", "done"
    fa_url,         \* url: Optional text
    all_ids,
    page_number,
    fa_exit,        \* "pending", "return_all_ids" (line 146), "return_empty"
                    \* or "raised" (an exception leaves the function)
    fa_requests,    \* the pages requested, in order
    fa_id_columns,  \* id_column of every page parsed
    fa_page_counts, \* len(ids) as logged, one per page parsed
    fa_log,         \* what each pass logged: "found", "fallback_warning",
                    \* "empty_error", "parse_error", "request_error"
    fa_exc,         \* the exception raised in the call, if any (Optional)
    fa_runs,        \* what the earlier calls of the run returned, in order
    \* ---- fetch_prospect_ids_from_activities: the server
    act_pages,      \* the pages of the activities endpoint, in server order
    act_link_style, \* how the server writes its Link headers
    act_fail_at,    \* the page whose GET fails (0: every GET succeeds)
    \* ---- fetch_prospect_ids_from_activities: the call
    pa_pc,          \* "idle", "loop", "done"
    pa_url,         \* url: Optional text
    pa_params,      \* params: Optional (the limit, on the first request only)
    prospect_ids,   \* the set prospect_ids
    pa_page_number, \* page_number
    pa_requests,    \* the pages requested, in order
    pa_log,         \* what each pass logged: "processed", "no_more",
                    \* "request_error", "unexpected_error"
    pa_exc,         \* the exception raised in the call, if any (Optional)
    pa_exit,        \* "pending", "return_list" (line 117) or "raised"
    \* ---- the batch main of main.py and of archive/main.py
    bt_program,     \* "main" (main.py) or "archive" (archive/main.py)
    bt_config,      \* what load_config and the validation find
    bt_pc,          \* "idle", "config", "loop", "summary", "exit"
    bt_i,           \* the position in TABLES of the next table
    bt_processed,   \* the tables processed, in order, and how each went
    successful_tables,
    failed_tables,
    exit_code,      \* Optional: what main returns
    \* ---- the batch main of welcome_home_export/main.py
    specific_tables,\* the argument of main: Optional text
    ex_connect_ok,  \* whether get_snowflake_connection returns a connection
    ex_plan,        \* how the fetch and the load of each table of the run go
    ex_pc,          \* "idle", "connect", "select", "loop", "ended"
    tables_to_run,
    ex_i,           \* the position in tables_to_run of the next table
    ex_iterations,  \* one record per pass of the for loop
    ex_load_calls,  \* the calls of create_table_and_load_data: table, ids
    warehouse,      \* the rows of every Snowflake table
    ex_conn,        \* "none", "open", "closed"
    ex_closes,      \* the number of calls of conn.close()
    ex_end,         \* "pending", "returned", "sys_exit_1", "raised"
    \* ---- one table through the three steps (process_table, or the pair
    \* ---- api_download_and_upload and snowflake_load of the archive)
    ps_program,     \* "main" or "archive"
    api_download,   \* the flags of process_table
    blob_upload,
    snowflake_load,
    ps_download,    \* what download_table_csv leaves: path, existence, size
    ps_upload,      \* how step 2 goes: "ok", "fails", "key_error"
    ps_sql_exists,  \* sql/<table>.sql exists
    ps_snowflake_config,  \* config has a Snowflake section
    ps_load,        \* how load_data_to_snowflake goes: "ok", "fails", "raises"
    ps_pc,          \* "idle", "step1", "step2", "step3", "ended"
    ps_csv_file_path,     \* the local csv_file_path
    ps_calls,       \* the calls of the three helpers, in order
    ps_return,      \* "pending", "True", "False", "None", "raised"
    \* ---- two fetches running at the same time
    cc_kind,        \* "download" (download_table_csv) or "ids" (fetch_all_ids_from_api)
    cc_same_dest,   \* the two downloads have the same table_name and temp_dir
    cc_write_through,     \* a write reaches the file at once (a page larger
                    \* than the buffer of the file object) or at close
    cc_pages,       \* per call, the pages the server gives it
    cc_files,       \* the content of the destination files (None: no file)
    cc_call         \* per call: pc, page_count, the file object (pos, buf),
                    \* all_ids, and what the call has produced at its return

cursor_vars == <<hdr_links, link_header, cx_done, res_util, res_export, res_act>>

csv_env_vars == <<srv_pages, srv_odd_hdr, srv_blank_at, srv_fail_at, fs_writable>>

csv_vars == <<dl_pc, current_url, page_count, total_records, csv_file,
              dl_result, dl_requests, dl_page_records, dl_page_written,
              dl_exc, dl_runs, pt_later, pt_result>>

ids_env_vars == <<ids_pages, ids_link_style, ids_fail_at>>

ids_vars == <<table_name, fa_pc, fa_url, all_ids, page_number, fa_exit,
              fa_requests, fa_id_columns, fa_page_counts, fa_log, fa_exc,
              fa_runs>>

act_env_vars == <<act_pages, act_link_style, act_fail_at>>

act_vars == <<pa_pc, pa_url, pa_params, prospect_ids, pa_page_number,
              pa_requests, pa_log, pa_exc, pa_exit>>

batch_vars == <<bt_program, bt_config, bt_pc, bt_i, bt_processed,
                successful_tables, failed_tables, exit_code>>

export_vars == <<specific_tables, ex_connect_ok, ex_plan, ex_pc, tables_to_run,
                 ex_i, ex_iterations, ex_load_calls, warehouse, ex_conn,
                 ex_closes, ex_end>>

\* the programs modelled after the fetch functions and the batch
process_vars == <<ps_program, api_download, blob_upload, snowflake_load,
                  ps_download, ps_upload, ps_sql_exists, ps_snowflake_config,
                  ps_load, ps_pc, ps_csv_file_path, ps_calls, ps_return>>
conc_vars == <<cc_kind, cc_same_dest, cc_write_through, cc_pages, cc_files,
               cc_call>>
rest_vars == <<export_vars, process_vars, conc_vars>>

\* the programs that share no state with the three above
act_batch_vars == <<act_env_vars, act_vars, batch_vars, rest_vars>>

vars == <<cursor_vars, csv_env_vars, csv_vars, ids_env_vars, ids_vars,
          act_env_vars, act_vars, batch_vars, rest_vars>>

-----------------------------------------------------------------------------
(* Bounds *)

MaxLinks == 2
MaxPages == 3
MaxRows == 2
MaxIdPages == 2
MaxIdRows == 3
MaxFetches == 4
MaxRuns == 2
MaxActPages == 2
MaxFetchPages == 2
MaxExportTables == 2
MaxConcPages == 2

-----------------------------------------------------------------------------
(* Optional values and text literals *)

None == << >>
Some(v) == <<v>>

Str_rel_eq == <<"r", "e", "l", "=">>
Str_next == <<"n", "e", "x", "t">>
Str_prev == <<"p", "r", "e", "v">>
Str_next_archive == <<"n", "e", "x", "t", "-", "a", "r", "c", "h", "i", "v", "e">>
Str_rel_next_dq == <<"r", "e", "l", "=", "\"", "n", "e", "x", "t", "\"">>

DigitChar == <<"1", "2", "3", "4", "5", "6", "7", "8", "9">>

\* Python: truthiness of an Optional[str] (None and "" are falsy)
Truthy(opt) == opt # None /\ opt[1] # << >>

-----------------------------------------------------------------------------
(* Python string primitives *)

\* str.isspace() of one character, as used by str.strip() and by \s
IsSpace(c) == c \in {" ", "\t", "\n", "\r", "\f"}

IsQuote(c) == c \in {"\"", "'"}

\* s[i:i+len(lit)] == lit
HasAt(s, i, lit) ==
    /\ i >= 1
    /\ i + Len(lit) - 1 <= Len(s)
    /\ SubSeq(s, i, i + Len(lit) - 1) = lit

\* lit in s
Contains(s, lit) == \E i \in 1..(Len(s) + 1) : HasAt(s, i, lit)

\* first index >= i holding c, 0 when there is none
RECURSIVE FindChar(_, _, _)
FindChar(s, c, i) ==
    IF i > Len(s) THEN 0
    ELSE IF s[i] = c THEN i
    ELSE FindChar(s, c, i + 1)

\* first index >= i that is not whitespace (Len(s)+1 when there is none)
RECURSIVE SkipSpaces(_, _)
SkipSpaces(s, i) ==
    IF i <= Len(s) /\ IsSpace(s[i]) THEN SkipSpaces(s, i + 1) ELSE i

\* str.lstrip(chars) / str.rstrip(chars) / str.strip(chars), chars a set
RECURSIVE LStripSet(_, _)
LStripSet(s, cs) ==
    IF s # << >> /\ Head(s) \in cs THEN LStripSet(Tail(s), cs) ELSE s

RECURSIVE RStripSet(_, _)
RStripSet(s, cs) ==
    IF s # << >> /\ s[Len(s)] \in cs
    THEN RStripSet(SubSeq(s, 1, Len(s) - 1), cs)
    ELSE s

StripSet(s, cs) == RStripSet(LStripSet(s, cs), cs)

\* str.strip(): whitespace removed from both ends
Strip(s) == StripSet(s, {" ", "\t", "\n", "\r", "\f"})

\* str.split(sep), sep one character: always at least one piece
RECURSIVE Split(_, _)
Split(s, sep) ==
    LET i == FindChar(s, sep, 1)
    IN  IF i = 0 THEN <<s>>
        ELSE <<SubSeq(s, 1, i - 1)>> \o Split(SubSeq(s, i + 1, Len(s)), sep)

\* sep.join(parts)
RECURSIVE Join(_, _)
Join(parts, sep) ==
    IF parts = << >> THEN << >>
    ELSE IF Len(parts) = 1 THEN parts[1]
    ELSE parts[1] \o sep \o Join(Tail(parts), sep)

-----------------------------------------------------------------------------
(* Exceptions and the except clauses that meet them *)

\* what requests.get and response.raise_for_status() raise: a network
\* failure, a non-success status
RequestFailures == {"ConnectionError", "HTTPError"}

\* isinstance(exc, requests.exceptions.RequestException)
IsRequestException(exc) == exc \in {"ConnectionError", "HTTPError", "JSONDecodeError"}

\* isinstance(exc, Exception)
IsException(exc) ==
    exc \in {"ConnectionError", "HTTPError", "JSONDecodeError", "OSError",
             "ParserError", "AttributeError"}

-----------------------------------------------------------------------------
(* Cursor extraction *)

\* re: <([^>]+)>\s*;\s*rel=["\']?next["\']?  matched at position i;
\* the value is the index of the closing ">" (0: no match at i)
NextLinkMatchAt(s, i) ==
    IF ~(i <= Len(s) /\ s[i] = "<") THEN 0
    ELSE LET g == FindChar(s, ">", i + 1)
             j == SkipSpaces(s, g + 1)
             k == SkipSpaces(s, j + 1)
             q == k + Len(Str_rel_eq)
         IN  IF /\ g > i + 1
                /\ j <= Len(s) /\ s[j] = ";"
                /\ HasAt(s, k, Str_rel_eq)
                /\ \/ HasAt(s, q, Str_next)
                   \/ (q <= Len(s) /\ IsQuote(s[q]) /\ HasAt(s, q + 1, Str_next))
             THEN g
             ELSE 0

\* re.search: the leftmost position at which the pattern matches, group 1
RECURSIVE NextLinkSearch(_, _)
NextLinkSearch(s, i) ==
    IF i > Len(s) THEN None
    ELSE LET g == NextLinkMatchAt(s, i)
         IN  IF g # 0 THEN Some(SubSeq(s, i + 1, g - 1))
             ELSE NextLinkSearch(s, i + 1)

\* a plausible slip: the optional quote accepts the double quote only
QuoteBlindMatchAt(s, i) ==
    IF ~(i <= Len(s) /\ s[i] = "<") THEN 0
    ELSE LET g == FindChar(s, ">", i + 1)
             j == SkipSpaces(s, g + 1)
             k == SkipSpaces(s, j + 1)
             q == k + Len(Str_rel_eq)
         IN  IF /\ g > i + 1
                /\ j <= Len(s) /\ s[j] = ";"
                /\ HasAt(s, k, Str_rel_eq)
                /\ \/ HasAt(s, q, Str_next)
                   \/ (q <= Len(s) /\ s[q] = "\"" /\ HasAt(s, q + 1, Str_next))
             THEN g
             ELSE 0

RECURSIVE QuoteBlindSearch(_, _)
QuoteBlindSearch(s, i) ==
    IF i > Len(s) THEN None
    ELSE LET g == QuoteBlindMatchAt(s, i)
         IN  IF g # 0 THEN Some(SubSeq(s, i + 1, g - 1))
             ELSE QuoteBlindSearch(s, i + 1)

get_next_page_url_quote_blind(hdr) ==
    IF ~Truthy(hdr) THEN None ELSE QuoteBlindSearch(hdr[1], 1)

\* utils/wh_api_utils.py _get_next_page_url
get_next_page_url(hdr) ==
    IF ~Truthy(hdr) THEN None ELSE NextLinkSearch(hdr[1], 1)

\* welcome_home_export/main.py, "Handle pagination" of fetch_all_ids_from_api:
\*   if 'Link' in headers and 'rel="next"' in headers['Link']:
\*       url = headers['Link'].split(';')[0].strip('<>')
ExportNextUrl(hdr) ==
    IF hdr # None /\ Contains(hdr[1], Str_rel_next_dq)
    THEN Some(StripSet(Split(hdr[1], ";")[1], {"<", ">"}))
    ELSE None

\* re: <([^>]+)>;\s*rel="next"  matched at position i
ActivitiesMatchAt(s, i) ==
    IF ~(i <= Len(s) /\ s[i] = "<") THEN 0
    ELSE LET g == FindChar(s, ">", i + 1)
             k == SkipSpaces(s, g + 2)
         IN  IF /\ g > i + 1
                /\ g + 1 <= Len(s) /\ s[g + 1] = ";"
                /\ HasAt(s, k, Str_rel_next_dq)
             THEN g
             ELSE 0

RECURSIVE ActivitiesSearch(_, _)
ActivitiesSearch(s, i) ==
    IF i > Len(s) THEN None
    ELSE LET g == ActivitiesMatchAt(s, i)
         IN  IF g # 0 THEN Some(SubSeq(s, i + 1, g - 1))
             ELSE ActivitiesSearch(s, i + 1)

\* welcome_home/main.py, "Check for next page using Link header"
ActivitiesNextUrl(hdr) ==
    IF Truthy(hdr) /\ Contains(hdr[1], Str_rel_next_dq)
    THEN ActivitiesSearch(hdr[1], 1)
    ELSE None

-----------------------------------------------------------------------------
(* Link headers as a server writes them *)

\* relation types of the IANA registry that a paged resource uses
Rels == {Str_next, Str_prev, Str_next_archive}
Quotes == {<< >>, <<"\"">>, <<"'">>}
Blanks == {<< >>, <<" ">>}

LinkShapes == [rel : Rels, quote : Quotes, wsb : Blanks, wsa : Blanks]

\* the URL of page i of a resource
UrlOf(i) == <<"u", DigitChar[i]>>

\* <URL> wsb ; wsa rel=Q relation Q
RenderLink(l, url) ==
    <<"<">> \o url \o <<">">> \o l.wsb \o <<";">> \o l.wsa
        \o Str_rel_eq \o l.quote \o l.rel \o l.quote

\* the k-th link of a header points at UrlOf(k); links are joined by ", "
RenderHeader(links) ==
    Join([k \in 1..Len(links) |-> RenderLink(links[k], UrlOf(k))], <<",", " ">>)

HeaderLinkLists == UNION {[1..n -> LinkShapes] : n \in 0..MaxLinks}

\* the URL of the first link whose relation is next
MarkedNext(links) ==
    LET ks == {k \in 1..Len(links) : links[k].rel = Str_next}
    IN  IF ks = {} THEN None
        ELSE Some(UrlOf(CHOOSE k \in ks : \A m \in ks : k <= m))

\* no download_table_csv call is in progress
CsvIdle ==
    /\ srv_pages = << >>
    /\ srv_odd_hdr = 0
    /\ srv_blank_at = 0
    /\ srv_fail_at = 0
    /\ fs_writable = TRUE
    /\ dl_pc = "idle"
    /\ current_url = None
    /\ page_count = 0
    /\ total_records = 0
    /\ csv_file = None
    /\ dl_result = "pending"
    /\ dl_requests = << >>
    /\ dl_page_records = << >>
    /\ dl_page_written = << >>
    /\ dl_exc = None
    /\ dl_runs = << >>
    /\ pt_later = "not_run"
    /\ pt_result = "pending"

\* no fetch_all_ids_from_api call is in progress
IdsIdle ==
    /\ ids_pages = << >>
    /\ ids_link_style = "plain"
    /\ ids_fail_at = 0
    /\ table_name = << >>
    /\ fa_pc = "idle"
    /\ fa_url = None
    /\ all_ids = << >>
    /\ page_number = 1
    /\ fa_exit = "pending"
    /\ fa_requests = << >>
    /\ fa_id_columns = << >>
    /\ fa_page_counts = << >>
    /\ fa_log = << >>
    /\ fa_exc = None
    /\ fa_runs = << >>

\* no fetch_prospect_ids_from_activities call is in progress
ActIdle ==
    /\ act_pages = << >>
    /\ act_link_style = "plain"
    /\ act_fail_at = 0
    /\ pa_pc = "idle"
    /\ pa_url = None
    /\ pa_params = None
    /\ prospect_ids = {}
    /\ pa_page_number = 1
    /\ pa_requests = << >>
    /\ pa_log = << >>
    /\ pa_exc = None
    /\ pa_exit = "pending"

\* the export batch is not running
ExportIdle ==
    /\ specific_tables = None
    /\ ex_connect_ok = TRUE
    /\ ex_plan = << >>
    /\ ex_pc = "idle"
    /\ tables_to_run = << >>
    /\ ex_i = 1
    /\ ex_iterations = << >>
    /\ ex_load_calls = << >>
    /\ warehouse = << >>
    /\ ex_conn = "none"
    /\ ex_closes = 0
    /\ ex_end = "pending"

\* no table is in the three steps
ProcessIdle ==
    /\ ps_program = "main"
    /\ api_download = TRUE
    /\ blob_upload = TRUE
    /\ snowflake_load = TRUE
    /\ ps_download = << >>
    /\ ps_upload = "ok"
    /\ ps_sql_exists = TRUE
    /\ ps_snowflake_config = TRUE
    /\ ps_load = "ok"
    /\ ps_pc = "idle"
    /\ ps_csv_file_path = None
    /\ ps_calls = << >>
    /\ ps_return = "pending"

\* no two fetches run at the same time
ConcIdle ==
    /\ cc_kind = "download"
    /\ cc_same_dest = FALSE
    /\ cc_write_through = FALSE
    /\ cc_pages = << >>
    /\ cc_files = << >>
    /\ cc_call = << >>

RestIdle == ExportIdle /\ ProcessIdle /\ ConcIdle

\* no batch is running
BatchIdle ==
    /\ bt_program = "main"
    /\ bt_config = "valid"
    /\ bt_pc = "idle"
    /\ bt_i = 1
    /\ bt_processed = << >>
    /\ successful_tables = << >>
    /\ failed_tables = << >>
    /\ exit_code = None

\* no Link header is under examination
CursorIdle ==
    /\ hdr_links = << >>
    /\ link_header = None
    /\ cx_done = {}
    /\ res_util = None
    /\ res_export = None
    /\ res_act = None

InitCursor ==
    /\ CsvIdle
    /\ IdsIdle
    /\ ActIdle
    /\ BatchIdle
    /\ RestIdle
    /\ hdr_links \in HeaderLinkLists
    /\ \/ link_header = Some(RenderHeader(hdr_links))
       \/ hdr_links = << >> /\ link_header = None
    /\ cx_done = {}
    /\ res_util = None
    /\ res_export = None
    /\ res_act = None

CallGetNextPageUrl ==
    /\ "util" \notin cx_done
    /\ res_util' = get_next_page_url(link_header)
    /\ cx_done' = cx_done \cup {"util"}
    /\ UNCHANGED <<hdr_links, link_header, res_export, res_act, csv_env_vars, csv_vars, ids_env_vars, ids_vars,
                   act_batch_vars>>

ExportPaginationStep ==
    /\ "export" \notin cx_done
    /\ res_export' = ExportNextUrl(link_header)
    /\ cx_done' = cx_done \cup {"export"}
    /\ UNCHANGED <<hdr_links, link_header, res_util, res_act, csv_env_vars, csv_vars, ids_env_vars, ids_vars,
                   act_batch_vars>>

ActivitiesPaginationStep ==
    /\ "act" \notin cx_done
    /\ res_act' = ActivitiesNextUrl(link_header)
    /\ cx_done' = cx_done \cup {"act"}
    /\ UNCHANGED <<hdr_links, link_header, res_util, res_export, csv_env_vars, csv_vars, ids_env_vars, ids_vars,
                   act_batch_vars>>

NextCursor ==
    \/ CallGetNextPageUrl
    \/ ExportPaginationStep
    \/ ActivitiesPaginationStep

SpecCursor == InitCursor /\ [][NextCursor]_vars

-----------------------------------------------------------------------------
(* The CSV export endpoint as the server answers it *)

HeaderLine(h) == IF h = 1 THEN <<"i", "d">> ELSE <<"i", "x">>

RowLetter == <<"a", "b", "c", "d", "e", "f">>

\* row j of page i: every row of a table is different
Row(i, j) == <<RowLetter[i], DigitChar[j]>>

\* a page: an empty body, or a header line, nrows rows and possibly a
\* newline after the last line
PageShapes ==
    [empty : {FALSE}, nrows : 0..MaxRows, nl : BOOLEAN]
        \cup {[empty |-> TRUE, nrows |-> 0, nl |-> FALSE]}

RowsOf(p, i) == [j \in 1..p.nrows |-> Row(i, j)]

\* response.text of page i, its first line being header line h; blank: the
\* last line ends with a blank
Body(p, i, h, blank) ==
    IF p.empty THEN << >>
    ELSE Join(<<HeaderLine(h)>> \o RowsOf(p, i), <<"\n">>)
            \o (IF blank THEN <<" ">> ELSE << >>)
            \o (IF p.nl THEN <<"\n">> ELSE << >>)

\* the header line of page i: all pages but srv_odd_hdr name the same columns
HdrOf(i) == IF i = srv_odd_hdr THEN 2 ELSE 1

\* the relation next is written in a different way on every page
NextShape(i) ==
    IF i % 3 = 1 THEN [rel |-> Str_next, quote |-> <<"'">>, wsb |-> <<" ">>, wsa |-> <<" ">>]
    ELSE IF i % 3 = 2 THEN [rel |-> Str_next, quote |-> <<"\"">>, wsb |-> << >>, wsa |-> <<" ">>]
    ELSE [rel |-> Str_next, quote |-> << >>, wsb |-> << >>, wsa |-> << >>]

PrevShape == [rel |-> Str_prev, quote |-> <<"\"">>, wsb |-> << >>, wsa |-> <<" ">>]

\* the Link header of page i of n: prev (from page 2 on), then next (but on
\* the last page); no header at all when there is neither
ChainLink(i, n) ==
    LET prev == IF i > 1 THEN <<RenderLink(PrevShape, UrlOf(i - 1))>> ELSE << >>
        next == IF i < n THEN <<RenderLink(NextShape(i), UrlOf(i + 1))>> ELSE << >>
    IN  IF prev \o next = << >> THEN None
        ELSE Some(Join(prev \o next, <<",", " ">>))

\* the page a URL names (0: no such page)
PageOfUrl(url, n) ==
    IF \E i \in 1..n : UrlOf(i) = url
    THEN CHOOSE i \in 1..n : UrlOf(i) = url
    ELSE 0

-----------------------------------------------------------------------------
(* utils/wh_api_utils.py download_table_csv *)

\* len(content.strip().split('\n'))
StrippedLineCount(content) == Len(Split(Strip(content), "\n"))

\* lines[1:] of content.strip().split('\n')
LinesAfterHeader(content) == Tail(Split(Strip(content), "\n"))

\* a plausible slip: the header of a later page is not skipped
PageText_keep_header(content, pc) ==
    IF pc = 1 THEN content
    ELSE IF StrippedLineCount(content) > 1
         THEN <<"\n">> \o Strip(content)
         ELSE << >>

\* what csv_file.write receives for page pc (nothing: << >>)
PageText(content, pc) ==
    IF pc = 1 THEN content
    ELSE IF StrippedLineCount(content) > 1
         THEN <<"\n">> \o Join(LinesAfterHeader(content), <<"\n">>)
         ELSE << >>

\* a plausible slip: the header line is not subtracted on later pages
LinesInPage_count_header(content, pc) ==
    IF pc = 1 THEN StrippedLineCount(content) - 1
    ELSE IF StrippedLineCount(content) > 1
         THEN StrippedLineCount(content)
         ELSE 0

\* lines_in_page of page pc
LinesInPage(content, pc) ==
    IF pc = 1 THEN StrippedLineCount(content) - 1
    ELSE IF StrippedLineCount(content) > 1
         THEN StrippedLineCount(content) - 1
         ELSE 0

\* a plausible slip: the file is opened for appending
OpenForWriting_append(file) == IF file = None THEN << >> ELSE file[1]

\* line 48: open(csv_file_path, 'w'): the content of the file once opened,
\* whatever it held before
OpenForWriting(file) == << >>

\* a plausible slip: only the failures of requests are met
DlExcept_requests_only(exc) ==
    IF IsRequestException(exc) THEN "none" ELSE "raised"

\* a plausible slip: the failure is logged and the path returned all the same
DlExcept_path(exc) ==
    IF IsException(exc) THEN "path" ELSE "raised"

\* lines 87-95: except RequestException: return None; except Exception:
\* return None
DlExcept(exc) ==
    IF IsRequestException(exc) THEN "none"
    ELSE IF IsException(exc) THEN "none"
    ELSE "raised"

\* a download_table_csv call about to start, against a chain of at most
\* max_pages pages
InitCsvUpTo(max_pages) ==
    /\ CursorIdle
    /\ IdsIdle
    /\ ActIdle
    /\ BatchIdle
    /\ RestIdle
    /\ \E n \in 1..max_pages :
        /\ srv_pages \in [1..n -> PageShapes]
        \* one disturbance per run: a page with other columns, a page that
        \* ends with a blank, a failing GET, or a destination that cannot be
        \* opened
        /\ \/ /\ srv_odd_hdr \in 0..n
              /\ srv_blank_at = 0 /\ srv_fail_at = 0 /\ fs_writable = TRUE
           \/ /\ srv_blank_at \in {k \in 1..n : ~srv_pages[k].empty}
              /\ srv_odd_hdr = 0 /\ srv_fail_at = 0 /\ fs_writable = TRUE
           \/ /\ srv_fail_at \in 1..n
              /\ srv_odd_hdr = 0 /\ srv_blank_at = 0 /\ fs_writable = TRUE
           \/ /\ fs_writable = FALSE
              /\ srv_odd_hdr = 0 /\ srv_blank_at = 0 /\ srv_fail_at = 0
    /\ dl_pc = "open"
    /\ current_url = None
    /\ page_count = 0
    /\ total_records = 0
    /\ csv_file = None
    /\ dl_result = "pending"
    /\ dl_requests = << >>
    /\ dl_page_records = << >>
    /\ dl_page_written = << >>
    /\ dl_exc = None
    /\ dl_runs = << >>
    /\ pt_later = "not_run"
    /\ pt_result = "pending"

InitCsv == InitCsvUpTo(MaxPages)

\* lines 43-48: current_url = base_url, the counters, open(csv_file_path, 'w');
\* an OSError of open meets the except clauses
DlOpen ==
    /\ dl_pc = "open"
    /\ current_url' = Some(UrlOf(1))
    /\ page_count' = 0
    /\ total_records' = 0
    /\ IF fs_writable
       THEN /\ csv_file' = Some(OpenForWriting(csv_file))
            /\ dl_pc' = "loop"
            /\ dl_result' = dl_result
            /\ dl_exc' = dl_exc
       ELSE /\ csv_file' = csv_file
            /\ dl_pc' = "done"
            /\ dl_exc' = Some("OSError")
            /\ dl_result' = DlExcept("OSError")
    /\ UNCHANGED <<dl_requests, dl_page_records, dl_page_written, dl_runs,
                   pt_later, pt_result>>
    /\ UNCHANGED <<cursor_vars, csv_env_vars, ids_env_vars, ids_vars,
                   act_batch_vars>>

\* lines 49-85 and 87-92: one pass of "while current_url"
DlPage ==
    /\ dl_pc = "loop"
    /\ Truthy(current_url)
    /\ LET n == Len(srv_pages)
           i == PageOfUrl(current_url[1], n)
           pc == page_count + 1
       IN  /\ page_count' = pc
           /\ dl_requests' = Append(dl_requests, current_url[1])
           /\ IF i = 0 \/ i = srv_fail_at
              THEN \* requests.get or raise_for_status raises; the file is
                   \* closed on the way out of "with"
                   /\ dl_pc' = "done"
                   /\ \E exc \in RequestFailures :
                        /\ dl_exc' = Some(exc)
                        /\ dl_result' = DlExcept(exc)
                   /\ UNCHANGED <<current_url, total_records, csv_file,
                                  dl_page_records, dl_page_written>>
              ELSE LET content == Body(srv_pages[i], i, HdrOf(i), i = srv_blank_at)
                       text == PageText(content, pc)
                       lines_in_page == LinesInPage(content, pc)
                       next_url == get_next_page_url(ChainLink(i, n))
                   IN  /\ csv_file' = Some(csv_file[1] \o text)
                       /\ total_records' = total_records + lines_in_page
                       /\ dl_page_records' = Append(dl_page_records, lines_in_page)
                       /\ dl_page_written' = Append(dl_page_written, text)
                       /\ current_url' = next_url
                       /\ dl_exc' = dl_exc
                       /\ IF Truthy(next_url)
                          THEN dl_pc' = "loop" /\ dl_result' = dl_result
                          ELSE dl_pc' = "done" /\ dl_result' = "path"
    /\ UNCHANGED <<dl_runs, pt_later, pt_result>>
    /\ UNCHANGED <<cursor_vars, csv_env_vars, ids_env_vars, ids_vars,
                   act_batch_vars>>

\* lines 39-48 once more: the function is called again with the same table
\* and temp_dir against the same server; the file of the earlier call is
\* still there
DlCallAgain ==
    /\ dl_pc = "done"
    /\ Len(dl_runs) + 1 < MaxRuns
    /\ dl_runs' = Append(dl_runs, [result |-> dl_result, file |-> csv_file])
    /\ dl_pc' = "open"
    /\ current_url' = None
    /\ page_count' = 0
    /\ total_records' = 0
    /\ dl_result' = "pending"
    /\ dl_requests' = << >>
    /\ dl_page_records' = << >>
    /\ dl_page_written' = << >>
    /\ dl_exc' = None
    /\ UNCHANGED <<csv_file, pt_later, pt_result>>
    /\ UNCHANGED <<cursor_vars, csv_env_vars, ids_env_vars, ids_vars,
                   act_batch_vars>>

-----------------------------------------------------------------------------
(* main.py process_table, the caller of download_table_csv *)

\* how the steps after the download go: the upload to blob storage, the SQL
\* file of the table, the load into Snowflake
LaterOutcomes ==
    {"ok", "upload_fails", "upload_raises", "sql_file_missing", "load_fails",
     "load_raises"}

\* a plausible slip: the result of the download is not looked at
ProcessTableResult_download_ignored(csv_file_path, file_size, later) ==
    IF later = "upload_raises" THEN "raised"
    ELSE IF later = "ok" THEN "True"
    ELSE "False"

\* lines 117-228: what process_table returns ("raised": an exception leaves
\* it); the file of a path returned exists
ProcessTableResult(csv_file_path, file_size, later) ==
    IF ~Truthy(csv_file_path) THEN "False"
    ELSE IF file_size = 0 THEN "False"
    ELSE IF later = "upload_raises" THEN "raised"
    ELSE IF later = "upload_fails" THEN "False"
    ELSE IF later = "sql_file_missing" THEN "False"
    ELSE IF later \in {"load_fails", "load_raises"} THEN "False"
    ELSE "True"

\* os.path.join(temp_dir, f"{table_name}.csv")
CsvFilePath == <<"t", "/", "T", ".", "c", "s", "v">>

\* lines 117-228 after download_table_csv has returned, and the end of
\* "with tempfile.TemporaryDirectory()", which removes the file
ProcessTable ==
    /\ dl_pc = "done"
    /\ dl_runs = << >>
    /\ LET csv_file_path == IF dl_result = "path" THEN Some(CsvFilePath) ELSE None
           file_size == IF csv_file = None THEN 0 ELSE Len(csv_file[1])
       IN  \E later \in LaterOutcomes :
            /\ pt_later' = IF Truthy(csv_file_path) /\ file_size # 0
                            THEN later ELSE "not_run"
            /\ pt_result' = ProcessTableResult(csv_file_path, file_size, later)
    /\ csv_file' = None
    /\ dl_pc' = "returned"
    /\ UNCHANGED <<current_url, page_count, total_records, dl_result,
                   dl_requests, dl_page_records, dl_page_written, dl_exc, dl_runs>>
    /\ UNCHANGED <<cursor_vars, csv_env_vars, ids_env_vars, ids_vars,
                   act_batch_vars>>

NextCsv ==
    \/ DlOpen
    \/ DlPage
    \/ ProcessTable

SpecCsv == InitCsv /\ [][NextCsv]_vars

-----------------------------------------------------------------------------
(* welcome_home_export/main.py to_snake_case *)

UpperChars == <<"A", "B", "C", "D", "E", "F", "G", "H", "I", "J", "K", "L", "M",
                "N", "O", "P", "Q", "R", "S", "T", "U", "V", "W", "X", "Y", "Z">>
LowerChars == <<"a", "b", "c", "d", "e", "f", "g", "h", "i", "j", "k", "l", "m",
                "n", "o", "p", "q", "r", "s", "t", "u", "v", "w", "x", "y", "z">>

UpperSet == {UpperChars[i] : i \in 1..Len(UpperChars)}
LowerSet == {LowerChars[i] : i \in 1..Len(LowerChars)}

IsUpper(c) == c \in UpperSet
IsLower(c) == c \in LowerSet
IsDigit(c) == c \in {"0", "1", "2", "3", "4", "5", "6", "7", "8", "9"}

\* str.lower() of one character
LowerChar(c) ==
    IF IsUpper(c)
    THEN LowerChars[CHOOSE i \in 1..Len(UpperChars) : UpperChars[i] = c]
    ELSE c

\* the last index of the run of lower-case letters that starts at i
RECURSIVE LowerRunEnd(_, _)
LowerRunEnd(s, i) ==
    IF i + 1 <= Len(s) /\ IsLower(s[i + 1]) THEN LowerRunEnd(s, i + 1) ELSE i

\* re.sub('(.)([A-Z][a-z]+)', r'\1_\2', s), scanning from i
RECURSIVE SubWordStart(_, _)
SubWordStart(s, i) ==
    IF i > Len(s) THEN << >>
    ELSE IF /\ s[i] # "\n"
            /\ i + 2 <= Len(s)
            /\ IsUpper(s[i + 1])
            /\ IsLower(s[i + 2])
         THEN LET e == LowerRunEnd(s, i + 2)
              IN  <<s[i], "_">> \o SubSeq(s, i + 1, e) \o SubWordStart(s, e + 1)
         ELSE <<s[i]>> \o SubWordStart(s, i + 1)

\* re.sub('([a-z0-9])([A-Z])', r'\1_\2', s), scanning from i
RECURSIVE SubCamelJoint(_, _)
SubCamelJoint(s, i) ==
    IF i > Len(s) THEN << >>
    ELSE IF /\ (IsLower(s[i]) \/ IsDigit(s[i]))
            /\ i + 1 <= Len(s)
            /\ IsUpper(s[i + 1])
         THEN <<s[i], "_", s[i + 1]>> \o SubCamelJoint(s, i + 2)
         ELSE <<s[i]>> \o SubCamelJoint(s, i + 1)

\* a plausible slip: the name is lower-cased and no underscore is inserted
to_snake_case_lower_only(name) == [i \in 1..Len(name) |-> LowerChar(name[i])]

to_snake_case(name) ==
    LET s1 == SubWordStart(name, 1)
        s2 == SubCamelJoint(s1, 1)
    IN  [i \in 1..Len(s2) |-> LowerChar(s2[i])]

-----------------------------------------------------------------------------
(* The ID export endpoint as the server answers it *)

DepositTransactions == <<"D", "e", "p", "o", "s", "i", "t", "T", "r", "a", "n", "s", "a", "c", "t", "i", "o", "n", "s">>
HousingContracts == <<"H", "o", "u", "s", "i", "n", "g", "C", "o", "n", "t", "r", "a", "c", "t", "s">>
Units == <<"U", "n", "i", "t", "s">>

\* tables of TABLES_TO_PROCESS: two words, two words, one word
TableNames == {DepositTransactions, HousingContracts, Units}

\* the ID column the server sends for each table
ServerIdColumn(t) ==
    IF t = DepositTransactions
    THEN <<"d", "e", "p", "o", "s", "i", "t", "_", "t", "r", "a", "n", "s", "a", "c", "t", "i", "o", "n", "s", ".", "i", "d">>
    ELSE IF t = HousingContracts
    THEN <<"h", "o", "u", "s", "i", "n", "g", "_", "c", "o", "n", "t", "r", "a", "c", "t", "s", ".", "i", "d">>
    ELSE <<"u", "n", "i", "t", "s", ".", "i", "d">>

Col_name == <<"n", "a", "m", "e">>
Col_other_id == <<"o", "t", "h", "e", "r", "_", "i", "d">>

\* the columns of a page: the ID column first, the ID column last, or no ID
\* column at all
Layouts == {"id_first", "id_last", "other"}

ColumnsOf(layout, t) ==
    IF layout = "id_first" THEN <<ServerIdColumn(t), Col_name>>
    ELSE IF layout = "id_last" THEN <<Col_name, ServerIdColumn(t)>>
    ELSE <<Col_other_id, Col_name>>

\* a page: an empty body, a body pandas cannot parse, or a table of nrows
\* rows (the second row, when there is one, holds nulls)
IdPageShapes ==
    {[kind |-> k, layout |-> "id_first", nrows |-> 0] : k \in {"empty", "garbage"}}
    \cup [kind : {"table"}, layout : Layouts, nrows : 0..MaxIdRows]

IsNullRow(j) == j = 2

\* the value in row j of a column (the same on every page, so that IDs repeat
\* from page to page)
CellValue(col, j) ==
    IF col = Col_name THEN 20 + j
    ELSE IF col = Col_other_id THEN 30 + j
    ELSE 10 + j

\* pd.read_csv(StringIO(response_text)): the columns and, per row, the
\* Optional value of each column
DataFrameOf(p, t) ==
    LET cols == ColumnsOf(p.layout, t)
    IN  [columns |-> cols,
         rows |-> [j \in 1..p.nrows |->
                     [c \in 1..Len(cols) |->
                        IF IsNullRow(j) THEN None
                        ELSE Some(CellValue(cols[c], j))]]]

IdsLinkStyles == {"plain", "single_quoted", "prev_first"}

PlainNext == [rel |-> Str_next, quote |-> <<"\"">>, wsb |-> << >>, wsa |-> <<" ">>]
SingleQuotedNext == [rel |-> Str_next, quote |-> <<"'">>, wsb |-> << >>, wsa |-> <<" ">>]

\* the Link header of page i of n
IdsLink(style, i, n) ==
    LET prev == IF style = "prev_first" /\ i > 1
                THEN <<RenderLink(PrevShape, UrlOf(i - 1))>> ELSE << >>
        shape == IF style = "single_quoted" THEN SingleQuotedNext ELSE PlainNext
        next == IF i < n THEN <<RenderLink(shape, UrlOf(i + 1))>> ELSE << >>
    IN  IF prev \o next = << >> THEN None
        ELSE Some(Join(prev \o next, <<",", " ">>))

-----------------------------------------------------------------------------
(* welcome_home_export/main.py fetch_all_ids_from_api *)

Str_dot_id == <<".", "i", "d">>

\* f"{snake_case_table}.id", computed once for every table
ExpectedIdColumns == [t \in TableNames |-> to_snake_case(t) \o Str_dot_id]

\* expected_id_column = f"{snake_case_table}.id"
ExpectedIdColumn(t) == ExpectedIdColumns[t]

InColumns(col, cols) == \E c \in 1..Len(cols) : cols[c] = col

IndexOfColumn(col, cols) == CHOOSE c \in 1..Len(cols) : cols[c] = col

\* a plausible slip: the fallback takes the last column
IdColumn_last_fallback(cols, expected_id_column) ==
    IF InColumns(expected_id_column, cols) THEN expected_id_column
    ELSE cols[Len(cols)]

\* lines 117-123: the expected column, or the first column as a fallback
IdColumn(cols, expected_id_column) ==
    IF InColumns(expected_id_column, cols) THEN expected_id_column
    ELSE cols[1]

\* Series.dropna().tolist()
RECURSIVE DropNa(_)
DropNa(cells) ==
    IF cells = << >> THEN << >>
    ELSE (IF Head(cells) = None THEN << >> ELSE <<Head(cells)[1]>>)
            \o DropNa(Tail(cells))

\* df[id_column].dropna().tolist()
PageIds(df, id_column) ==
    LET c == IndexOfColumn(id_column, df.columns)
    IN  DropNa([j \in 1..Len(df.rows) |-> df.rows[j][c]])

\* a plausible slip: the IDs of a page replace those gathered so far
Extend_overwrite(ids_so_far, ids) == ids

\* all_ids.extend(ids)
Extend(ids_so_far, ids) == ids_so_far \o ids

\* a plausible slip: the loop is left and the IDs gathered so far returned
FaRequestExcept_break(exc) ==
    IF IsRequestException(exc) THEN "return_all_ids" ELSE "raised"

\* lines 141-143: except requests.exceptions.RequestException: return []
FaRequestExcept(exc) ==
    IF IsRequestException(exc) THEN "return_empty" ELSE "raised"

\* lines 131-133: except Exception: return []; what it lets through meets
\* the except clause of lines 141-143
FaParseExcept(exc) ==
    IF IsException(exc) THEN "return_empty" ELSE FaRequestExcept(exc)

\* a fetch_all_ids_from_api call about to start, against a chain of at
\* most max_pages pages
InitIdsUpTo(max_pages) ==
    /\ CursorIdle
    /\ CsvIdle
    /\ ActIdle
    /\ BatchIdle
    /\ RestIdle
    /\ table_name \in TableNames
    /\ \E n \in 1..max_pages :
        /\ ids_pages \in [1..n -> IdPageShapes]
        \* one disturbance per run: the way links are written, or a failing GET
        /\ \/ ids_link_style \in IdsLinkStyles /\ ids_fail_at = 0
           \/ ids_link_style = "plain" /\ ids_fail_at \in 1..n
    /\ fa_pc = "loop"
    /\ fa_url = Some(UrlOf(1))
    /\ all_ids = << >>
    /\ page_number = 1
    /\ fa_exit = "pending"
    /\ fa_requests = << >>
    /\ fa_id_columns = << >>
    /\ fa_page_counts = << >>
    /\ fa_log = << >>
    /\ fa_exc = None
    /\ fa_runs = << >>

InitIds == InitIdsUpTo(MaxIdPages)

\* lines 96-143: one pass of "while url"
FetchIdsPage ==
    /\ fa_pc = "loop"
    /\ Truthy(fa_url)
    /\ Len(fa_requests) < MaxFetches
    /\ LET n == Len(ids_pages)
           i == PageOfUrl(fa_url[1], n)
       IN  /\ fa_requests' = Append(fa_requests, i)
           /\ IF i = 0 \/ i = ids_fail_at
              THEN \* requests.get or raise_for_status raises
                   /\ fa_log' = Append(fa_log, "request_error")
                   /\ fa_pc' = "done"
                   /\ \E exc \in RequestFailures :
                        /\ fa_exc' = Some(exc)
                        /\ fa_exit' = FaRequestExcept(exc)
                   /\ UNCHANGED <<fa_url, all_ids, page_number, fa_id_columns,
                                  fa_page_counts>>
              ELSE IF ids_pages[i].kind = "empty"
              THEN \* not response_text.strip(): return []
                   /\ fa_log' = Append(fa_log, "empty_error")
                   /\ fa_pc' = "done"
                   /\ fa_exit' = "return_empty"
                   /\ UNCHANGED <<fa_url, all_ids, page_number, fa_id_columns,
                                  fa_page_counts, fa_exc>>
              ELSE IF ids_pages[i].kind = "garbage"
              THEN \* pd.read_csv raises
                   /\ fa_log' = Append(fa_log, "parse_error")
                   /\ fa_pc' = "done"
                   /\ fa_exc' = Some("ParserError")
                   /\ fa_exit' = FaParseExcept("ParserError")
                   /\ UNCHANGED <<fa_url, all_ids, page_number, fa_id_columns,
                                  fa_page_counts>>
              ELSE LET df == DataFrameOf(ids_pages[i], table_name)
                       expected_id_column == ExpectedIdColumn(table_name)
                       id_column == IdColumn(df.columns, expected_id_column)
                       ids == PageIds(df, id_column)
                       url == ExportNextUrl(IdsLink(ids_link_style, i, n))
                   IN  /\ fa_log' = Append(fa_log,
                            IF InColumns(expected_id_column, df.columns)
                            THEN "found" ELSE "fallback_warning")
                       /\ fa_id_columns' = Append(fa_id_columns, id_column)
                       /\ all_ids' = Extend(all_ids, ids)
                       /\ fa_page_counts' = Append(fa_page_counts, Len(ids))
                       /\ page_number' = page_number + 1
                       /\ fa_url' = url
                       /\ fa_exc' = fa_exc
                       /\ IF Truthy(url)
                          THEN fa_pc' = "loop" /\ fa_exit' = fa_exit
                          ELSE fa_pc' = "done" /\ fa_exit' = "return_all_ids"
    /\ UNCHANGED <<table_name, fa_runs, cursor_vars, csv_env_vars, csv_vars,
                   ids_env_vars, act_batch_vars>>

\* what the call returns: all_ids (line 146), or [] (lines 107, 133, 143)
FetchIdsResult == IF fa_exit = "return_all_ids" THEN all_ids ELSE << >>

\* lines 86-95 once more: the function is called again for the same table
\* against the same server; every local starts anew
FetchIdsAgain ==
    /\ fa_pc = "done"
    /\ Len(fa_runs) + 1 < MaxRuns
    /\ fa_runs' = Append(fa_runs, [exit |-> fa_exit, ids |-> FetchIdsResult])
    /\ fa_pc' = "loop"
    /\ fa_url' = Some(UrlOf(1))
    /\ all_ids' = << >>
    /\ page_number' = 1
    /\ fa_exit' = "pending"
    /\ fa_requests' = << >>
    /\ fa_id_columns' = << >>
    /\ fa_page_counts' = << >>
    /\ fa_log' = << >>
    /\ fa_exc' = None
    /\ UNCHANGED <<table_name, cursor_vars, csv_env_vars, csv_vars, ids_env_vars, act_batch_vars>>

NextIds == FetchIdsPage

SpecIds == InitIds /\ [][NextIds]_vars

-----------------------------------------------------------------------------
(* The activities endpoint as the server answers it *)

\* the activities a page can hold: two prospects, a record of another type,
\* a prospect without record_id
ActivityPool ==
    {[record_type |-> "Prospect", record_id |-> Some(1)],
     [record_type |-> "Prospect", record_id |-> Some(2)],
     [record_type |-> "Resident", record_id |-> Some(3)],
     [record_type |-> "Prospect", record_id |-> None]}

\* a page: a JSON list of activities (possibly empty), a JSON object, or a
\* body that is not JSON
ActPageShapes ==
    [kind : {"list"}, activities : SUBSET ActivityPool]
        \cup {[kind |-> k, activities |-> {}] : k \in {"object", "not_json"}}

-----------------------------------------------------------------------------
(* welcome_home/main.py fetch_prospect_ids_from_activities *)

\* lines 88-90: the record_id of the activities of record_type Prospect
\* that have one
ProspectIdsOf(activities) ==
    {a.record_id[1] : a \in {b \in activities :
                                b.record_type = "Prospect" /\ b.record_id # None}}

\* which except clause meets exc (lines 109-114); both leave the loop
PaExceptLog(exc) ==
    IF IsRequestException(exc) THEN "request_error"
    ELSE IF IsException(exc) THEN "unexpected_error"
    ELSE "uncaught"

\* lines 109-117: break, then return list(prospect_ids)
PaExcept(exc) ==
    IF PaExceptLog(exc) = "uncaught" THEN "raised" ELSE "return_list"

\* a fetch_prospect_ids_from_activities call about to start, against a
\* chain of at most max_pages pages
InitActUpTo(max_pages) ==
    /\ CursorIdle
    /\ CsvIdle
    /\ IdsIdle
    /\ BatchIdle
    /\ RestIdle
    /\ \E n \in 1..max_pages :
        /\ act_pages \in [1..n -> ActPageShapes]
        \* one disturbance per run: the way links are written, or a failing GET
        /\ \/ act_link_style \in IdsLinkStyles /\ act_fail_at = 0
           \/ act_link_style = "plain" /\ act_fail_at \in 1..n
    /\ pa_pc = "loop"
    /\ pa_url = Some(UrlOf(1))
    /\ pa_params = Some("limit")
    /\ prospect_ids = {}
    /\ pa_page_number = 1
    /\ pa_requests = << >>
    /\ pa_log = << >>
    /\ pa_exc = None
    /\ pa_exit = "pending"

InitAct == InitActUpTo(MaxActPages)

\* lines 74-117: one pass of "while url"
FetchActivitiesPage ==
    /\ pa_pc = "loop"
    /\ Truthy(pa_url)
    /\ LET n == Len(act_pages)
           i == PageOfUrl(pa_url[1], n)
       IN  /\ pa_requests' = Append(pa_requests, i)
           /\ IF i = 0 \/ i = act_fail_at
              THEN \* requests.get or raise_for_status raises
                   /\ \E exc \in RequestFailures :
                        /\ pa_exc' = Some(exc)
                        /\ pa_log' = Append(pa_log, PaExceptLog(exc))
                        /\ pa_exit' = PaExcept(exc)
                   /\ pa_pc' = "done"
                   /\ UNCHANGED <<pa_url, pa_params, prospect_ids, pa_page_number>>
              ELSE IF act_pages[i].kind = "not_json"
              THEN \* response.json() raises
                   /\ pa_exc' = Some("JSONDecodeError")
                   /\ pa_log' = Append(pa_log, PaExceptLog("JSONDecodeError"))
                   /\ pa_exit' = PaExcept("JSONDecodeError")
                   /\ pa_pc' = "done"
                   /\ UNCHANGED <<pa_url, pa_params, prospect_ids, pa_page_number>>
              ELSE IF act_pages[i].kind = "object"
              THEN \* the keys of the object are strings: activity.get raises
                   /\ pa_exc' = Some("AttributeError")
                   /\ pa_log' = Append(pa_log, PaExceptLog("AttributeError"))
                   /\ pa_exit' = PaExcept("AttributeError")
                   /\ pa_pc' = "done"
                   /\ UNCHANGED <<pa_url, pa_params, prospect_ids, pa_page_number>>
              ELSE IF act_pages[i].activities = {}
              THEN \* not activities: break
                   /\ pa_log' = Append(pa_log, "no_more")
                   /\ pa_exit' = "return_list"
                   /\ pa_pc' = "done"
                   /\ UNCHANGED <<pa_url, pa_params, prospect_ids, pa_page_number,
                                  pa_exc>>
              ELSE LET url == ActivitiesNextUrl(IdsLink(act_link_style, i, n))
                   IN  /\ prospect_ids' =
                            prospect_ids \cup ProspectIdsOf(act_pages[i].activities)
                       /\ pa_log' = Append(pa_log, "processed")
                       /\ pa_url' = url
                       /\ pa_exc' = pa_exc
                       /\ IF url # None
                          THEN /\ pa_params' = None
                               /\ pa_page_number' = pa_page_number + 1
                          ELSE UNCHANGED <<pa_params, pa_page_number>>
                       /\ IF Truthy(url)
                          THEN pa_pc' = "loop" /\ pa_exit' = pa_exit
                          ELSE pa_pc' = "done" /\ pa_exit' = "return_list"
    /\ UNCHANGED <<cursor_vars, csv_env_vars, csv_vars, ids_env_vars, ids_vars,
                   act_env_vars, batch_vars, rest_vars>>

\* what the call returns: the elements of list(prospect_ids), whose order is
\* that of the set's iteration
FetchActivitiesResult == prospect_ids

NextAct == FetchActivitiesPage

SpecAct == InitAct /\ [][NextAct]_vars

\* the three fetch functions, each called up to MaxRuns times against a
\* chain of at most MaxFetchPages pages
InitFetch ==
    \/ InitCsvUpTo(MaxFetchPages)
    \/ InitIdsUpTo(MaxFetchPages)
    \/ InitActUpTo(MaxFetchPages)

NextFetch ==
    \/ DlOpen
    \/ DlPage
    \/ DlCallAgain
    \/ FetchIdsPage
    \/ FetchIdsAgain
    \/ FetchActivitiesPage

SpecFetch == InitFetch /\ [][NextFetch]_vars

-----------------------------------------------------------------------------
(* main.py and archive/main.py: the batch over TABLES *)

TABLES == <<"Prospects", "Residents", "Activities", "DepositTransactions">>

\* what load_config and the validation of lines 250-260 find
ConfigOutcomes ==
    {"valid", "no_api_key", "no_azure_connection_string", "no_snowflake",
     "load_config_raises"}

\* what download_table_csv leaves to its caller: None, the path of an empty
\* file, the path of a file with content
DownloadOutcomes ==
    {[csv_file_path |-> None, file_size |-> 0],
     [csv_file_path |-> Some(CsvFilePath), file_size |-> 0],
     [csv_file_path |-> Some(CsvFilePath), file_size |-> 1]}

\* archive/main.py lines 67-131: api_download_and_upload
ApiDownloadAndUpload(csv_file_path, file_size, later) ==
    IF ~Truthy(csv_file_path) THEN "False"
    ELSE IF file_size = 0 THEN "False"
    ELSE IF later = "upload_raises" THEN "raised"
    ELSE IF later = "upload_fails" THEN "False"
    ELSE "True"

\* archive/main.py lines 134-200: snowflake_load
SnowflakeLoad(later) ==
    IF later \in {"sql_file_missing", "load_fails", "load_raises"} THEN "False"
    ELSE "True"

\* archive/main.py lines 236-249: the two steps of a table
ArchiveTableResult(csv_file_path, file_size, later) ==
    LET upload_success == ApiDownloadAndUpload(csv_file_path, file_size, later)
    IN  IF upload_success = "True" THEN SnowflakeLoad(later) ELSE upload_success

\* the step that decided the result of a table
DecidedBy(csv_file_path, file_size, later) ==
    IF ~Truthy(csv_file_path) THEN "download_failed"
    ELSE IF file_size = 0 THEN "empty_file"
    ELSE later

\* a plausible slip: the exit code does not look at failed_tables
ExitCode_zero(failed) == 0

\* lines 292-297: return 0 if not failed_tables else 1
ExitCode(failed) == IF failed = << >> THEN 0 ELSE 1

InitBatch ==
    /\ CursorIdle
    /\ CsvIdle
    /\ IdsIdle
    /\ ActIdle
    /\ RestIdle
    /\ bt_program \in {"main", "archive"}
    /\ bt_config \in ConfigOutcomes
    /\ bt_pc = "config"
    /\ bt_i = 1
    /\ bt_processed = << >>
    /\ successful_tables = << >>
    /\ failed_tables = << >>
    /\ exit_code = None

\* main.py lines 244-264 (archive/main.py 209-229): the configuration is
\* loaded and validated; an exception of load_config meets lines 299-301
BatchConfig ==
    /\ bt_pc = "config"
    /\ IF bt_config = "valid"
       THEN bt_pc' = "loop" /\ exit_code' = exit_code
       ELSE bt_pc' = "exit" /\ exit_code' = Some(1)
    /\ successful_tables' = << >>
    /\ failed_tables' = << >>
    /\ UNCHANGED <<bt_program, bt_config, bt_i, bt_processed>>
    /\ UNCHANGED <<cursor_vars, csv_env_vars, csv_vars, ids_env_vars, ids_vars,
                   act_env_vars, act_vars, rest_vars>>

\* main.py lines 266-279 (archive/main.py 231-253): one table of the loop
BatchTable ==
    /\ bt_pc = "loop"
    /\ bt_i <= Len(TABLES)
    /\ \E dl \in DownloadOutcomes, later \in LaterOutcomes :
        LET tbl == TABLES[bt_i]
            success == IF bt_program = "main"
                       THEN ProcessTableResult(dl.csv_file_path, dl.file_size, later)
                       ELSE ArchiveTableResult(dl.csv_file_path, dl.file_size, later)
        IN  /\ bt_processed' = Append(bt_processed,
                    [table |-> tbl, result |-> success,
                     how |-> DecidedBy(dl.csv_file_path, dl.file_size, later)])
            /\ IF success = "True"
               THEN /\ successful_tables' = Append(successful_tables, tbl)
                    /\ failed_tables' = failed_tables
               ELSE \* False, or an exception met by lines 277-279
                    /\ failed_tables' = Append(failed_tables, tbl)
                    /\ successful_tables' = successful_tables
    /\ bt_i' = bt_i + 1
    /\ UNCHANGED <<bt_program, bt_config, bt_pc, exit_code>>
    /\ UNCHANGED <<cursor_vars, csv_env_vars, csv_vars, ids_env_vars, ids_vars,
                   act_env_vars, act_vars, rest_vars>>

\* main.py lines 281-297 (archive/main.py 255-271): the summary and the exit
\* code
BatchSummary ==
    /\ bt_pc = "loop"
    /\ bt_i > Len(TABLES)
    /\ exit_code' = Some(ExitCode(failed_tables))
    /\ bt_pc' = "exit"
    /\ UNCHANGED <<bt_program, bt_config, bt_i, bt_processed, successful_tables,
                   failed_tables>>
    /\ UNCHANGED <<cursor_vars, csv_env_vars, csv_vars, ids_env_vars, ids_vars,
                   act_env_vars, act_vars, rest_vars>>

NextBatch ==
    \/ BatchConfig
    \/ BatchTable
    \/ BatchSummary

SpecBatch == InitBatch /\ [][NextBatch]_vars

-----------------------------------------------------------------------------
(* welcome_home_export/main.py: the batch over tables_to_run *)

Organizations == <<"O", "r", "g", "a", "n", "i", "z", "a", "t", "i", "o", "n", "s">>
Referrers == <<"R", "e", "f", "e", "r", "r", "e", "r", "s">>
Influencers == <<"I", "n", "f", "l", "u", "e", "n", "c", "e", "r", "s">>
MarketingTouchpoints == <<"M", "a", "r", "k", "e", "t", "i", "n", "g", "T", "o", "u", "c", "h", "p", "o", "i", "n", "t", "s">>
ServiceAgreements == <<"S", "e", "r", "v", "i", "c", "e", "A", "g", "r", "e", "e", "m", "e", "n", "t", "s">>
Traits == <<"T", "r", "a", "i", "t", "s">>
Prospects == <<"P", "r", "o", "s", "p", "e", "c", "t", "s">>
Residents == <<"R", "e", "s", "i", "d", "e", "n", "t", "s">>
Activities == <<"A", "c", "t", "i", "v", "i", "t", "i", "e", "s">>

\* lines 40-53
TABLES_TO_PROCESS ==
    <<Organizations, Referrers, Influencers, Units, HousingContracts,
      DepositTransactions, MarketingTouchpoints, ServiceAgreements, Traits,
      Prospects, Residents, Activities>>

\* line 205
valid_tables ==
    <<Organizations, Referrers, Influencers, Units, HousingContracts,
      DepositTransactions, MarketingTouchpoints, ServiceAgreements, Traits,
      Prospects, Residents, Activities>>

\* a name that is no table
Bogus == <<"B", "o", "g", "u", "s">>

\* the names a caller writes in the argument of main
ArgumentNames == {Units, DepositTransactions, Bogus}

\* the argument of main as the caller writes it: names separated by commas,
\* a name possibly preceded by a blank
RECURSIVE ArgumentTexts(_)
ArgumentTexts(n) ==
    LET pieces == {pad \o name : pad \in Blanks, name \in ArgumentNames}
    IN  IF n = 1 THEN pieces
        ELSE {txt \o <<",">> \o p : txt \in ArgumentTexts(n - 1), p \in pieces}

\* line 212: [table.strip() for table in specific_tables.split(',')]
ParseSpecificTables(txt) ==
    LET parts == Split(txt, ",")
    IN  [k \in 1..Len(parts) |-> Strip(parts[k])]

\* lines 215-218: every name is in valid_tables
AllValid(tables) ==
    \A k \in 1..Len(tables) : \E v \in 1..Len(valid_tables) : valid_tables[v] = tables[k]

\* how the fetch and the load of a table go: the fetch returns [], the table
\* is created and loaded, write_pandas reports no success, cursor.execute
\* raises, write_pandas raises
TableOutcomes ==
    {"fetch_empty", "loaded", "write_unsuccessful", "create_raises", "write_raises"}

\* what fetch_all_ids_from_api returns under an outcome
FetchedIds(outcome) == IF outcome = "fetch_empty" THEN << >> ELSE <<11, 13>>

\* the rows a table holds before the run
PreviousRows == <<99>>

\* the outcomes of a run over n tables: any, for the runs of up to
\* MaxExportTables tables; at most one table that is not loaded, for longer
\* runs
PlansFor(n) ==
    IF n <= MaxExportTables THEN [1..n -> TableOutcomes]
    ELSE {[k \in 1..n |-> "loaded"]}
            \cup {[k \in 1..n |-> IF k = d THEN o ELSE "loaded"] :
                    d \in 1..n, o \in TableOutcomes \ {"loaded"}}

\* a plausible slip: the load is attempted whatever the fetch returned
ShouldLoad_always(ids) == TRUE

\* line 227: if ids
ShouldLoad(ids) == ids # << >>

\* lines 158-167 and 170-185: the statements create_table_and_load_data
\* executes under an outcome, in order
StatementsOf(ids, outcome) ==
    IF outcome = "create_raises" THEN << >>
    ELSE IF ids = << >> THEN <<"create_or_replace_table">>
    ELSE <<"create_or_replace_table", "write_pandas">>

\* the rows of the table once create_table_and_load_data is left
RowsAfterLoad(before, ids, outcome) ==
    IF outcome = "create_raises" THEN before
    ELSE IF ids # << >> /\ outcome \in {"loaded", "fetch_empty"} THEN ids
    ELSE << >>

\* a plausible slip: the exception is logged and not raised again
CreateTableAndLoadData_swallow(outcome) == "returns"

\* lines 194-196: an exception of the Snowflake operations is logged and
\* raised again
CreateTableAndLoadData(outcome) ==
    IF outcome \in {"create_raises", "write_raises"} THEN "raises" ELSE "returns"

\* a plausible slip: the connection is closed at the end of the loop only
ClosesOnLeave_normal_only(how) == IF how = "returned" THEN 1 ELSE 0

\* lines 230-231: finally: conn.close(), however the try block is left
ClosesOnLeave(how) == 1

InitExport ==
    /\ CursorIdle
    /\ CsvIdle
    /\ IdsIdle
    /\ ActIdle
    /\ BatchIdle
    /\ ProcessIdle
    /\ ConcIdle
    /\ ex_connect_ok \in BOOLEAN
    /\ \/ /\ specific_tables \in {None, Some(<< >>)}
          /\ ex_plan \in PlansFor(Len(TABLES_TO_PROCESS))
       \/ \E n \in 1..MaxExportTables :
            /\ specific_tables \in {Some(txt) : txt \in ArgumentTexts(n)}
            /\ ex_plan \in PlansFor(n)
    /\ ex_pc = "connect"
    /\ tables_to_run = << >>
    /\ ex_i = 1
    /\ ex_iterations = << >>
    /\ ex_load_calls = << >>
    /\ warehouse = [v \in 1..Len(valid_tables) |-> PreviousRows]
    /\ ex_conn = "none"
    /\ ex_closes = 0
    /\ ex_end = "pending"

ExportFrame ==
    UNCHANGED <<cursor_vars, csv_env_vars, csv_vars, ids_env_vars, ids_vars,
                act_env_vars, act_vars, batch_vars, process_vars, conc_vars>>

\* lines 200-202: no connection, no run
ExportConnect ==
    /\ ex_pc = "connect"
    /\ IF ex_connect_ok
       THEN /\ ex_conn' = "open"
            /\ ex_pc' = "select"
            /\ ex_end' = ex_end
       ELSE /\ ex_conn' = ex_conn
            /\ ex_pc' = "ended"
            /\ ex_end' = "returned"
    /\ UNCHANGED <<specific_tables, ex_connect_ok, ex_plan, tables_to_run, ex_i,
                   ex_iterations, ex_load_calls, warehouse, ex_closes>>
    /\ ExportFrame

\* lines 207-222: the tables of the run; an invalid name ends main with
\* sys.exit(1), through the finally clause
ExportSelect ==
    /\ ex_pc = "select"
    /\ LET tables == IF Truthy(specific_tables)
                     THEN ParseSpecificTables(specific_tables[1])
                     ELSE TABLES_TO_PROCESS
       IN  /\ tables_to_run' = tables
           /\ IF Truthy(specific_tables) /\ ~AllValid(tables)
              THEN /\ ex_pc' = "ended"
                   /\ ex_end' = "sys_exit_1"
                   /\ ex_conn' = "closed"
                   /\ ex_closes' = ex_closes + ClosesOnLeave("sys_exit_1")
              ELSE /\ ex_pc' = "loop"
                   /\ UNCHANGED <<ex_end, ex_conn, ex_closes>>
    /\ UNCHANGED <<specific_tables, ex_connect_ok, ex_plan, ex_i, ex_iterations,
                   ex_load_calls, warehouse>>
    /\ ExportFrame

\* lines 224-229: one table of the loop; an exception of
\* create_table_and_load_data ends main through the finally clause
ExportTable ==
    /\ ex_pc = "loop"
    /\ ex_i <= Len(tables_to_run)
    /\ LET table == tables_to_run[ex_i]
           outcome == ex_plan[ex_i]
           ids == FetchedIds(outcome)
           v == CHOOSE w \in 1..Len(valid_tables) : valid_tables[w] = table
           called == ShouldLoad(ids)
           left == IF called THEN CreateTableAndLoadData(outcome) ELSE "returns"
           after == IF called THEN RowsAfterLoad(warehouse[v], ids, outcome)
                    ELSE warehouse[v]
       IN  /\ ex_iterations' = Append(ex_iterations,
                [table |-> table, ids |-> ids,
                 statements |-> IF called THEN StatementsOf(ids, outcome) ELSE << >>,
                 before |-> warehouse[v], after |-> after])
           /\ ex_load_calls' = IF called
                               THEN Append(ex_load_calls, [table |-> table, ids |-> ids])
                               ELSE ex_load_calls
           /\ warehouse' = [warehouse EXCEPT ![v] = after]
           /\ IF left = "raises"
              THEN /\ ex_pc' = "ended"
                   /\ ex_end' = "raised"
                   /\ ex_conn' = "closed"
                   /\ ex_closes' = ex_closes + ClosesOnLeave("raised")
                   /\ ex_i' = ex_i
              ELSE /\ ex_i' = ex_i + 1
                   /\ UNCHANGED <<ex_pc, ex_end, ex_conn, ex_closes>>
    /\ UNCHANGED <<specific_tables, ex_connect_ok, ex_plan, tables_to_run>>
    /\ ExportFrame

\* lines 230-232 after the last table: the connection is closed, main returns
ExportFinish ==
    /\ ex_pc = "loop"
    /\ ex_i > Len(tables_to_run)
    /\ ex_pc' = "ended"
    /\ ex_end' = "returned"
    /\ ex_conn' = "closed"
    /\ ex_closes' = ex_closes + ClosesOnLeave("returned")
    /\ UNCHANGED <<specific_tables, ex_connect_ok, ex_plan, tables_to_run, ex_i,
                   ex_iterations, ex_load_calls, warehouse>>
    /\ ExportFrame

NextExport ==
    \/ ExportConnect
    \/ ExportSelect
    \/ ExportTable
    \/ ExportFinish

SpecExport == InitExport /\ [][NextExport]_vars

-----------------------------------------------------------------------------
(* main.py process_table and archive/main.py api_download_and_upload,
   snowflake_load: one table through the three steps *)

\* what download_table_csv leaves to its caller: None, a path whose file is
\* gone, the path of an empty file, the path of a file with content
StepDownloadOutcomes ==
    {[csv_file_path |-> None, exists |-> FALSE, file_size |-> 0],
     [csv_file_path |-> Some(CsvFilePath), exists |-> FALSE, file_size |-> 0],
     [csv_file_path |-> Some(CsvFilePath), exists |-> TRUE, file_size |-> 0],
     [csv_file_path |-> Some(CsvFilePath), exists |-> TRUE, file_size |-> 1]}

\* step 2: upload_to_azure_blob returns True, returns False, or
\* config['Azure'] lacks a key of azure_config (a KeyError, before the call)
UploadOutcomes == {"ok", "fails", "key_error"}

\* load_data_to_snowflake returns True, returns False, or the try block of
\* step 3 raises
LoadOutcomes == {"ok", "fails", "raises"}

\* a plausible slip: any path returned by the download is taken
DownloadUsable_any_path(csv_file_path, exists, file_size) == Truthy(csv_file_path)

\* lines 123-137 (archive 93-108): the download gave a path to an existing
\* file of non-zero size
DownloadUsable(csv_file_path, exists, file_size) ==
    Truthy(csv_file_path) /\ exists /\ file_size # 0

\* lines 167 and 227-228: "return True" is inside "if snowflake_load:"; with
\* the flag off the function ends without a return statement
ReturnAtEnd(load_enabled) == IF load_enabled THEN "True" ELSE "None"

Call(step, result, dl) ==
    [step |-> step, result |-> result, exists |-> dl.exists,
     file_size |-> dl.file_size]

InitProcess ==
    /\ CursorIdle
    /\ CsvIdle
    /\ IdsIdle
    /\ ActIdle
    /\ BatchIdle
    /\ ExportIdle
    /\ ConcIdle
    /\ ps_program \in {"main", "archive"}
    /\ api_download \in BOOLEAN
    /\ blob_upload \in BOOLEAN
    /\ snowflake_load \in BOOLEAN
    /\ ps_program = "archive" => (api_download /\ blob_upload /\ snowflake_load)
    /\ ps_download \in StepDownloadOutcomes
    /\ ps_upload \in UploadOutcomes
    /\ ps_sql_exists \in BOOLEAN
    /\ ps_snowflake_config \in BOOLEAN
    /\ ps_load \in LoadOutcomes
    /\ ps_pc = "step1"
    /\ ps_csv_file_path = None
    /\ ps_calls = << >>
    /\ ps_return = "pending"

ProcessFrame ==
    /\ UNCHANGED <<ps_program, api_download, blob_upload, snowflake_load,
                   ps_download, ps_upload, ps_sql_exists, ps_snowflake_config,
                   ps_load>>
    /\ UNCHANGED <<cursor_vars, csv_env_vars, csv_vars, ids_env_vars, ids_vars,
                   act_env_vars, act_vars, batch_vars, export_vars, conc_vars>>

\* lines 107-137 (archive 80-108): step 1
ProcessStep1 ==
    /\ ps_pc = "step1"
    /\ IF api_download
       THEN /\ ps_calls' = Append(ps_calls,
                    Call("download_table_csv",
                         IF Truthy(ps_download.csv_file_path) THEN "path" ELSE "None",
                         ps_download))
            /\ ps_csv_file_path' = ps_download.csv_file_path
            /\ IF DownloadUsable(ps_download.csv_file_path, ps_download.exists,
                                 ps_download.file_size)
               THEN ps_pc' = "step2" /\ ps_return' = ps_return
               ELSE ps_pc' = "ended" /\ ps_return' = "False"
       ELSE /\ ps_pc' = "step2"
            /\ UNCHANGED <<ps_calls, ps_csv_file_path, ps_return>>
    /\ ProcessFrame

\* lines 139-165 (archive 110-128): step 2
ProcessStep2 ==
    /\ ps_pc = "step2"
    /\ IF ~blob_upload
       THEN /\ ps_pc' = "step3"
            /\ UNCHANGED <<ps_calls, ps_return>>
       ELSE IF ~Truthy(ps_csv_file_path)
       THEN /\ ps_pc' = "ended"
            /\ ps_return' = "False"
            /\ ps_calls' = ps_calls
       ELSE IF ps_upload = "key_error"
       THEN /\ ps_pc' = "ended"
            /\ ps_return' = "raised"
            /\ ps_calls' = ps_calls
       ELSE /\ ps_calls' = Append(ps_calls,
                    Call("upload_to_azure_blob",
                         IF ps_upload = "ok" THEN "True" ELSE "False", ps_download))
            /\ IF ps_upload = "ok"
               THEN ps_pc' = "step3" /\ ps_return' = ps_return
               ELSE ps_pc' = "ended" /\ ps_return' = "False"
    /\ ps_csv_file_path' = ps_csv_file_path
    /\ ProcessFrame

\* lines 167-228 and the end of the function (archive 134-200): step 3
ProcessStep3 ==
    /\ ps_pc = "step3"
    /\ ps_pc' = "ended"
    /\ IF ~snowflake_load
       THEN /\ ps_return' = ReturnAtEnd(snowflake_load)
            /\ ps_calls' = ps_calls
       ELSE IF ~ps_sql_exists \/ ~ps_snowflake_config
       THEN /\ ps_return' = "False"
            /\ ps_calls' = ps_calls
       ELSE /\ ps_calls' = Append(ps_calls,
                    Call("load_data_to_snowflake",
                         IF ps_load = "ok" THEN "True"
                         ELSE IF ps_load = "fails" THEN "False" ELSE "raised",
                         ps_download))
            /\ ps_return' = IF ps_load = "ok" THEN ReturnAtEnd(snowflake_load)
                            ELSE "False"
    /\ ps_csv_file_path' = ps_csv_file_path
    /\ ProcessFrame

NextProcess ==
    \/ ProcessStep1
    \/ ProcessStep2
    \/ ProcessStep3

SpecProcess == InitProcess /\ [][NextProcess]_vars

-----------------------------------------------------------------------------
(* Two fetches running at the same time: two download_table_csv calls, or
   two fetch_all_ids_from_api calls, interleaved at their GET requests *)

Calls == {1, 2}

\* response.text of a page of a download
ConcBodies == {<<"i", "d", "\n", "a">>, <<"i", "d", "\n", "b", "\n", "c">>}

\* the IDs of a page of fetch_all_ids_from_api
ConcIdLists == {<<1>>, <<2, 3>>}

\* the chains of 1..n pages over a set of pages
Chains(pages, n) == UNION {[1..k -> pages] : k \in 1..n}

\* wh_api_utils.py line 41: os.path.join(temp_dir, f"{table_name}.csv"); the
\* same file for the same table_name and temp_dir
DestinationOf(c, same_dest) == IF same_dest THEN 1 ELSE c

\* the byte that fills a file between its end and a write beyond it
Nul == "\\0"

\* a write of text at offset pos of a file
WriteAt(file, pos, text) ==
    LET n == IF Len(file) > pos + Len(text) THEN Len(file) ELSE pos + Len(text)
    IN  [i \in 1..n |->
            IF i > pos /\ i <= pos + Len(text) THEN text[i - pos]
            ELSE IF i <= Len(file) THEN file[i]
            ELSE Nul]

\* the file object flushes its buffer at its own offset
Flushed(file, f) == WriteAt(file, f.pos, f.buf)

\* what a call produces when it runs alone
RECURSIVE AloneFile(_, _)
AloneFile(pages, k) ==
    IF k = 0 THEN << >> ELSE AloneFile(pages, k - 1) \o PageText(pages[k], k)

RECURSIVE AloneIds(_, _)
AloneIds(pages, k) ==
    IF k = 0 THEN << >> ELSE Extend(AloneIds(pages, k - 1), pages[k])

NewCall(pc) ==
    [pc |-> pc, page_count |-> 0, pos |-> 0, buf |-> << >>, all_ids |-> << >>,
     product |-> None]

InitConc ==
    /\ CursorIdle
    /\ CsvIdle
    /\ IdsIdle
    /\ ActIdle
    /\ BatchIdle
    /\ ExportIdle
    /\ ProcessIdle
    /\ \/ /\ cc_kind = "download"
          /\ cc_same_dest \in BOOLEAN
          /\ cc_write_through \in BOOLEAN
          /\ cc_pages \in [Calls -> Chains(ConcBodies, MaxConcPages)]
          /\ cc_call = [c \in Calls |-> NewCall("start")]
       \/ /\ cc_kind = "ids"
          /\ cc_same_dest = FALSE
          /\ cc_write_through = FALSE
          /\ cc_pages \in [Calls -> Chains(ConcIdLists, MaxConcPages)]
          /\ cc_call = [c \in Calls |-> NewCall("loop")]
    /\ cc_files = [d \in Calls |-> None]

ConcFrame ==
    /\ UNCHANGED <<cc_kind, cc_same_dest, cc_write_through, cc_pages>>
    /\ UNCHANGED <<cursor_vars, csv_env_vars, csv_vars, ids_env_vars, ids_vars,
                   act_env_vars, act_vars, batch_vars, export_vars, process_vars>>

\* wh_api_utils.py line 48: open(csv_file_path, 'w') creates or empties the
\* file; the call then waits for its first GET
ConcOpen(c) ==
    /\ cc_kind = "download"
    /\ cc_call[c].pc = "start"
    /\ cc_files' = [cc_files EXCEPT ![DestinationOf(c, cc_same_dest)] = Some(<< >>)]
    /\ cc_call' = [cc_call EXCEPT ![c].pc = "loop"]
    /\ ConcFrame

\* wh_api_utils.py lines 49-82: one page of a download up to its next GET;
\* after the last page the file is closed and the path returned
ConcPage(c) ==
    /\ cc_kind = "download"
    /\ cc_call[c].pc = "loop"
    /\ LET me == cc_call[c]
           d == DestinationOf(c, cc_same_dest)
           pc == me.page_count + 1
           last == pc = Len(cc_pages[c])
           written == [me EXCEPT !.buf = me.buf \o PageText(cc_pages[c][pc], pc),
                                 !.page_count = pc]
           flush == cc_write_through \/ last
           file == IF flush THEN Flushed(cc_files[d][1], written)
                   ELSE cc_files[d][1]
           after == IF flush
                    THEN [written EXCEPT !.pos = written.pos + Len(written.buf),
                                         !.buf = << >>]
                    ELSE written
       IN  /\ cc_files' = [cc_files EXCEPT ![d] = Some(file)]
           /\ cc_call' = [cc_call EXCEPT ![c] =
                            IF last
                            THEN [after EXCEPT !.pc = "returned",
                                               !.product = Some(file)]
                            ELSE after]
    /\ ConcFrame

\* welcome_home_export/main.py lines 96-146: one page of
\* fetch_all_ids_from_api up to its next GET; after the last page all_ids is
\* returned
ConcIdsPage(c) ==
    /\ cc_kind = "ids"
    /\ cc_call[c].pc = "loop"
    /\ LET me == cc_call[c]
           pn == me.page_count + 1
           ids == Extend(me.all_ids, cc_pages[c][pn])
           last == pn = Len(cc_pages[c])
       IN  cc_call' = [cc_call EXCEPT ![c] =
                [me EXCEPT !.page_count = pn,
                           !.all_ids = ids,
                           !.pc = IF last THEN "returned" ELSE "loop",
                           !.product = IF last THEN Some(ids) ELSE None]]
    /\ cc_files' = cc_files
    /\ ConcFrame

NextConc ==
    \/ \E c \in Calls : ConcOpen(c)
    \/ \E c \in Calls : ConcPage(c)
    \/ \E c \in Calls : ConcIdsPage(c)

SpecConc == InitConc /\ [][NextConc]_vars

-----------------------------------------------------------------------------
(* The programs together: one of them runs in a behaviour *)

Init == InitCursor \/ InitCsv \/ InitIds \/ InitAct \/ InitBatch \/ InitExport
            \/ InitProcess \/ InitConc

Next == NextCursor \/ NextFetch \/ ProcessTable \/ NextBatch \/ NextExport
            \/ NextProcess \/ NextConc

Spec == Init /\ [][Next]_vars

-----------------------------------------------------------------------------
(* Vocabulary of the statements about download_table_csv *)

RECURSIVE SumSeq(_)
SumSeq(q) == IF q = << >> THEN 0 ELSE Head(q) + SumSeq(Tail(q))

RECURSIVE ConcatAll(_)
ConcatAll(q) == IF q = << >> THEN << >> ELSE Head(q) \o ConcatAll(Tail(q))

Max(a, b) == IF a >= b THEN a ELSE b

\* the destination file was opened and every GET succeeds
DlUndisturbed == fs_writable /\ srv_fail_at = 0

\* the number of lines of page k as the server wrote it
LinesOfPage(k) == IF srv_pages[k].empty THEN 0 ELSE 1 + srv_pages[k].nrows

\* the lines of page k after its first line, as the server wrote them
LinesAfterFirst(k) ==
    LET rows == RowsOf(srv_pages[k], k)
    IN  [j \in 1..Len(rows) |->
            IF j = Len(rows) /\ k = srv_blank_at THEN rows[j] \o <<" ">> ELSE rows[j]]

\* page 1 verbatim, then for each later page that has lines after its first
\* line one newline and those lines, up to page k
RECURSIVE MergedText(_)
MergedText(k) ==
    IF k = 1 THEN Body(srv_pages[1], 1, HdrOf(1), srv_blank_at = 1)
    ELSE MergedText(k - 1)
            \o (IF srv_pages[k].nrows > 0
                THEN <<"\n">> \o Join(LinesAfterFirst(k), <<"\n">>)
                ELSE << >>)

(* C1: over a chain p1..pn whose pages 1..n-1 carry a next link to the     *)
(* following page and whose last page carries none, with every GET          *)
(* succeeding (and the destination file opened), download_table_csv issues  *)
(* the GETs p1..pn in that order, each once, then stops and returns the     *)
(* file path; the total it reports is the sum of the per-page counts.       *)
C1_ChainVisitedInOrder ==
    (DlUndisturbed /\ dl_pc \in {"loop", "done"}) =>
        /\ Len(dl_requests) <= Len(srv_pages)
        /\ \A k \in 1..Len(dl_requests) : dl_requests[k] = UrlOf(k)
        /\ total_records = SumSeq(dl_page_records)
        /\ dl_pc = "loop" =>
            /\ Len(dl_requests) < Len(srv_pages)
            /\ current_url = Some(UrlOf(Len(dl_requests) + 1))
        /\ dl_pc = "done" =>
            /\ dl_requests = [k \in 1..Len(srv_pages) |-> UrlOf(k)]
            /\ Len(dl_page_records) = Len(srv_pages)
            /\ dl_result = "path"

C1_Witness ==
    /\ DlUndisturbed
    /\ dl_pc = "done"
    /\ dl_requests = <<UrlOf(1), UrlOf(2), UrlOf(3)>>
    /\ dl_page_records = <<2, 0, 1>>
    /\ total_records = 3
    /\ dl_result = "path"

\* every page starts with the same header line and none ends with a newline
C2_Pages ==
    /\ srv_odd_hdr = 0
    /\ \A k \in 1..Len(srv_pages) :
        /\ ~srv_pages[k].empty
        /\ ~srv_pages[k].nl
        /\ k = srv_blank_at => srv_pages[k].nrows > 0

\* C2 as stated: when every page body starts with the same header line and
\* none ends with a newline, the file is page 1 verbatim followed, page after
\* page in fetch order, by a newline and the lines of the page after its first
\* line, and the total is the number of those lines.
C2_TextMergeAsStated ==
    (DlUndisturbed /\ dl_pc = "done" /\ C2_Pages) =>
        /\ csv_file = Some(MergedText(Len(srv_pages)))
        /\ total_records = SumSeq([k \in 1..Len(srv_pages) |-> srv_pages[k].nrows])

(* C2, amended: when every page body starts with the same header line and  *)
(* none ends with white space (a newline or a blank), the file is page 1    *)
(* verbatim followed, page after page in fetch order, by a newline and the  *)
(* lines of the page after its first line (a page that has only the header  *)
(* line adds nothing), and the total is the number of those lines.          *)
C2_TextMerge ==
    (DlUndisturbed /\ dl_pc = "done" /\ C2_Pages /\ srv_blank_at = 0) =>
        /\ csv_file = Some(MergedText(Len(srv_pages)))
        /\ total_records = SumSeq([k \in 1..Len(srv_pages) |-> srv_pages[k].nrows])

\* "id\na1\na2" then "id\nb1" give "id\na1\na2\nb1", 3 records
C2_Witness ==
    /\ DlUndisturbed /\ dl_pc = "done" /\ C2_Pages /\ srv_blank_at = 0
    /\ Len(srv_pages) = 2
    /\ srv_pages[1].nrows = 2
    /\ srv_pages[2].nrows = 1
    /\ csv_file = Some(<<"i", "d", "\n", "a", "1", "\n", "a", "2", "\n", "b", "1">>)
    /\ total_records = 3

(* C3: whatever the page bodies, also when the first page ends with a      *)
(* newline, the file never holds an empty line between the last row of one  *)
(* page and the first row of the next.                                      *)
C3_NoEmptyLineBetweenPages ==
    (DlUndisturbed /\ dl_pc = "done" /\ ~srv_pages[1].empty /\ srv_blank_at = 0) =>
        ~Contains(csv_file[1], <<"\n", "\n">>)

(* C4: a later page that is only a header line counts 0 records and writes *)
(* nothing; the count of every page, an empty body included, is its number  *)
(* of lines minus one, floored at zero.                                     *)
C4_PageRecordCounts ==
    /\ Len(dl_page_written) = Len(dl_page_records)
    /\ (dl_pc \in {"loop", "done"} /\ csv_file # None) =>
            csv_file[1] = ConcatAll(dl_page_written)
    /\ \A k \in 1..Len(dl_page_records) :
        /\ dl_page_records[k] = Max(0, LinesOfPage(k) - 1)
        /\ dl_page_records[k] >= 0
        /\ (k > 1 /\ LinesOfPage(k) = 1) =>
                dl_page_records[k] = 0 /\ dl_page_written[k] = << >>

\* a header-only second page ending with a newline, after an empty first page
\* and before a page with rows
C4_Witness ==
    /\ dl_pc = "done" /\ dl_result = "path"
    /\ Len(srv_pages) = 3
    /\ srv_pages[1].empty
    /\ ~srv_pages[2].empty /\ srv_pages[2].nrows = 0 /\ srv_pages[2].nl
    /\ dl_page_records = <<0, 0, 2>>
    /\ dl_page_written[2] = << >>

(* C5: after a successful run in which some page carries rows, the header  *)
(* line is in the file exactly once and is its first line, also when the    *)
(* first page is empty.                                                     *)
C5_HeaderOnceAndFirst ==
    (/\ DlUndisturbed /\ dl_pc = "done" /\ srv_odd_hdr = 0 /\ srv_blank_at = 0
     /\ \E k \in 1..Len(srv_pages) : srv_pages[k].nrows > 0) =>
        LET lines == Split(csv_file[1], "\n")
        IN  /\ lines[1] = HeaderLine(1)
            /\ Cardinality({k \in 1..Len(lines) : lines[k] = HeaderLine(1)}) = 1

(* C6: a page after the first whose first line differs from the header of  *)
(* page 1 fails the fetch: download_table_csv returns None.                 *)
C6_OtherColumnsFail ==
    (/\ dl_pc = "done"
     /\ ~srv_pages[1].empty
     /\ \E k \in 2..Len(dl_page_records) :
            ~srv_pages[k].empty /\ HdrOf(k) # HdrOf(1)) =>
        dl_result = "none"

-----------------------------------------------------------------------------
(* Vocabulary of the statements about fetch_all_ids_from_api *)

\* the column the IDs of a page are to be taken from: the table's ID column,
\* or the first column of a page that has none
TargetColumn(p) ==
    IF p.layout = "other" THEN Col_other_id ELSE ServerIdColumn(table_name)

RECURSIVE NonNullValues(_, _, _)
NonNullValues(col, j, nrows) ==
    IF j > nrows THEN << >>
    ELSE (IF IsNullRow(j) THEN << >> ELSE <<CellValue(col, j)>>)
            \o NonNullValues(col, j + 1, nrows)

\* the non-null values of the target column of a page, in row order
TargetValues(p) == NonNullValues(TargetColumn(p), 1, p.nrows)

\* the pages parsed so far, in the order they were fetched
ParsedPages == [k \in 1..Len(fa_page_counts) |-> ids_pages[fa_requests[k]]]

(* C9: when every page of a fetch succeeds and parses, the list returned   *)
(* is the concatenation, in the order the pages were fetched and in row     *)
(* order within a page, of the non-null values of each page's target        *)
(* column; duplicates are kept and its length is the sum of the per-page    *)
(* counts.                                                                  *)
C9_IdsConcatenated ==
    /\ fa_exit # "return_empty" =>
        all_ids = ConcatAll([k \in 1..Len(ParsedPages) |-> TargetValues(ParsedPages[k])])
    /\ fa_exit = "return_all_ids" =>
        /\ Len(fa_page_counts) = Len(fa_requests)
        /\ FetchIdsResult =
             ConcatAll([k \in 1..Len(fa_requests) |->
                          TargetValues(ids_pages[fa_requests[k]])])
        /\ Len(FetchIdsResult) = SumSeq(fa_page_counts)

\* two pages with the same three rows (the second row null): the IDs of the
\* first page come back again after it
C9_Witness ==
    /\ fa_exit = "return_all_ids"
    /\ fa_requests = <<1, 2>>
    /\ ids_pages[1].layout = "id_first"
    /\ ids_pages[2].layout = "id_last"
    /\ FetchIdsResult = <<11, 13, 11, 13>>
    /\ fa_page_counts = <<2, 2>>

(* C10: the target column is to_snake_case(table_name) followed by ".id"   *)
(* ("DepositTransactions" gives "deposit_transactions.id"); a page without  *)
(* that column has its first column used instead and a warning logged, and  *)
(* the fetch goes on: the mismatch is no failure.                           *)
C10_FallbackToFirstColumn ==
    /\ table_name # << >> =>
        ExpectedIdColumn(table_name) = ServerIdColumn(table_name)
    /\ Len(fa_id_columns) = Len(fa_page_counts)
    /\ \A k \in 1..Len(ParsedPages) :
        /\ fa_id_columns[k] = TargetColumn(ParsedPages[k])
        /\ fa_page_counts[k] = Len(TargetValues(ParsedPages[k]))
        /\ fa_log[k] = IF ParsedPages[k].layout = "other"
                       THEN "fallback_warning" ELSE "found"
    /\ \A k \in 1..Len(fa_log) :
        fa_log[k] \in {"found", "fallback_warning"} =>
            \/ fa_exit = "pending"
            \/ fa_exit = "return_all_ids"
            \/ k < Len(fa_log)
    /\ (/\ fa_pc = "done"
        /\ ids_link_style = "plain"
        /\ ids_fail_at = 0
        /\ \A i \in 1..Len(ids_pages) : ids_pages[i].kind = "table") =>
            /\ fa_requests = [i \in 1..Len(ids_pages) |-> i]
            /\ fa_exit = "return_all_ids"

\* DepositTransactions, a first page whose columns are other_id and name:
\* other_id is used, a warning is logged and the second page is fetched
C10_Witness ==
    /\ table_name = DepositTransactions
    /\ ExpectedIdColumn(table_name) =
          <<"d", "e", "p", "o", "s", "i", "t", "_", "t", "r", "a", "n", "s",
            "a", "c", "t", "i", "o", "n", "s", ".", "i", "d">>
    /\ fa_exit = "return_all_ids"
    /\ fa_requests = <<1, 2>>
    /\ ids_pages[1].layout = "other"
    /\ fa_id_columns[1] = Col_other_id
    /\ fa_log = <<"fallback_warning", "found">>
    /\ FetchIdsResult = <<31, 11, 13>>

-----------------------------------------------------------------------------
(* C7: _get_next_page_url returns the URL of the link marked next, whether  *)
(* the relation value is unquoted, double-quoted or single-quoted and with  *)
(* or without blanks around the semicolon, and None for an absent header,   *)
(* an empty header and a header with no next relation.                      *)
C7_NextUrlExtracted ==
    "util" \in cx_done => res_util = MarkedNext(hdr_links)

\* the part of C7 that holds: over headers whose relation values are next
\* and prev only, the URL of the first link marked next, or None
C7_NextAmongNextAndPrev ==
    ("util" \in cx_done
        /\ \A k \in 1..Len(hdr_links) : hdr_links[k].rel # Str_next_archive) =>
            res_util = MarkedNext(hdr_links)

(* C8: the pagination steps of fetch_all_ids_from_api and of               *)
(* fetch_prospect_ids_from_activities follow the URL _get_next_page_url    *)
(* returns for the same header, and stop exactly when it returns None.     *)
C8_SameNextUrl ==
    /\ {"util", "export"} \subseteq cx_done => res_export = res_util
    /\ {"util", "act"} \subseteq cx_done => res_act = res_util

-----------------------------------------------------------------------------
(* Statements about failures and the end of the stream *)

FaErrors == {"request_error", "empty_error", "parse_error"}

(* C11: within one call of fetch_all_ids_from_api the column the IDs are    *)
(* taken from is settled on page 1: every later page has its IDs taken from  *)
(* that same column, whatever columns it carries.                            *)
C11_IdColumnFixedFromFirstPage ==
    \A k \in 1..Len(fa_id_columns) : fa_id_columns[k] = fa_id_columns[1]

(* C12: when the GET of a page fails, its body is empty or its body cannot  *)
(* be parsed, fetch_all_ids_from_api has issued its last request and         *)
(* returns the empty list, whatever IDs the earlier pages gave: a failed     *)
(* call never returns a non-empty part of the IDs.                           *)
C12_AllOrNothing ==
    \A k \in 1..Len(fa_log) :
        fa_log[k] \in FaErrors =>
            /\ k = Len(fa_log)
            /\ Len(fa_requests) = k
            /\ fa_pc = "done"
            /\ fa_exit = "return_empty"
            /\ FetchIdsResult = << >>

\* the second page fails after the first one gave IDs
C12_Witness ==
    /\ Len(fa_log) = 2
    /\ fa_log[2] \in FaErrors
    /\ all_ids # << >>
    /\ fa_exit = "return_empty"

PaErrors == {"request_error", "unexpected_error"}

(* C13: when the request of a page after the first fails (the GET fails or  *)
(* the body is not what is expected), fetch_prospect_ids_from_activities     *)
(* returns no IDs, not the IDs gathered from the pages before.               *)
C13_NoPartialProspectIds ==
    (/\ pa_pc = "done"
     /\ Len(pa_log) > 1
     /\ pa_log[Len(pa_log)] \in PaErrors) =>
        FetchActivitiesResult = {}

\* the text download_table_csv writes for pages 1..k when nothing disturbs it
WrittenUpTo(k) ==
    ConcatAll([j \in 1..k |-> PageText(Body(srv_pages[j], j, HdrOf(j), j = srv_blank_at), j)])

\* the GET of the failing page has been issued
FailedGetIssued ==
    /\ srv_fail_at > 0
    /\ \E k \in 1..Len(dl_requests) : dl_requests[k] = UrlOf(srv_fail_at)

(* C14: when the GET of page k fails (a non-success status or a network     *)
(* failure), download_table_csv issues that GET once, issues no GET after    *)
(* it, writes nothing more to the file and returns None.                     *)
C14_FailedGetEndsDownload ==
    FailedGetIssued =>
        /\ Len(dl_requests) = srv_fail_at
        /\ \A k \in 1..Len(dl_requests) : dl_requests[k] = UrlOf(k)
        /\ dl_pc \in {"done", "returned"}
        /\ dl_exc \in {Some(exc) : exc \in RequestFailures}
        /\ dl_result = "none"
        /\ Len(dl_page_written) = srv_fail_at - 1
        /\ dl_pc = "done" => csv_file = Some(ConcatAll(dl_page_written))

\* the third GET fails after two pages were written
C14_Witness ==
    /\ FailedGetIssued
    /\ srv_fail_at = 3
    /\ dl_exc = Some("HTTPError")
    /\ dl_page_written[1] # << >>
    /\ dl_page_written[2] # << >>
    /\ dl_result = "none"

(* C15: when download_table_csv fails on a page k after the first, the file *)
(* holds the merged content of pages 1..k-1 when the function returns, and   *)
(* process_table returns False for the table.                                *)
C15_PartialFileKeptAttemptDiscarded ==
    (FailedGetIssued /\ srv_fail_at > 1) =>
        /\ dl_pc = "done" => csv_file = Some(WrittenUpTo(srv_fail_at - 1))
        /\ dl_pc = "returned" => pt_result = "False" /\ pt_later = "not_run"

\* page 2 fails, page 1 had rows, process_table has returned
C15_Witness ==
    /\ FailedGetIssued
    /\ srv_fail_at = 2
    /\ srv_pages[1].nrows > 0
    /\ dl_pc = "returned"
    /\ pt_result = "False"

\* the file of the witness before process_table returns
C15_FileKept ==
    /\ FailedGetIssued
    /\ srv_fail_at = 2
    /\ dl_pc = "done"
    /\ csv_file = Some(<<"i", "d", "\n", "a", "1">>)

(* C16: when the body of the first page is empty the fetch stops there,     *)
(* next link or not, and the outcome is "no data", not a failure:            *)
(* download_table_csv returns the path and process_table does not return     *)
(* False on its account, and fetch_all_ids_from_api does not go through its  *)
(* error path.                                                               *)
C16_EmptyFirstPageIsNoData ==
    /\ (/\ dl_pc \in {"done", "returned"}
        /\ DlUndisturbed
        /\ srv_pages[1].empty) =>
            /\ Len(dl_requests) = 1
            /\ dl_result = "path"
            /\ dl_pc = "returned" => pt_later # "not_run"
    /\ (/\ fa_pc = "done"
        /\ ids_fail_at = 0
        /\ ids_pages[1].kind = "empty") =>
            /\ Len(fa_requests) = 1
            /\ fa_log # <<"empty_error">>

(* C17: an empty body on a page after the first ends the stream: no further *)
(* page is requested and what the earlier pages gave is returned as the      *)
(* result of a successful call, in download_table_csv, in                    *)
(* fetch_all_ids_from_api and in fetch_prospect_ids_from_activities.         *)
C17_EmptyLaterPageEndsStream ==
    /\ \A k \in 2..Len(dl_page_written) :
        srv_pages[k].empty =>
            /\ k = Len(dl_requests)
            /\ dl_pc # "loop"
            /\ dl_result = "path"
    /\ \A k \in 2..Len(fa_log) :
        fa_log[k] = "empty_error" =>
            /\ k = Len(fa_requests)
            /\ fa_pc = "done"
            /\ fa_exit = "return_all_ids"
    /\ \A k \in 2..Len(pa_log) :
        pa_log[k] = "no_more" =>
            /\ k = Len(pa_requests)
            /\ pa_pc = "done"
            /\ pa_exit = "return_list"

\* the part of C17 that holds: fetch_prospect_ids_from_activities
C17_ActivitiesPart ==
    \A k \in 2..Len(pa_log) :
        pa_log[k] = "no_more" =>
            /\ k = Len(pa_requests)
            /\ pa_pc = "done"
            /\ pa_exit = "return_list"

-----------------------------------------------------------------------------
(* Statements about repeated calls, exceptions and the batch *)

(* C18: a second call of download_table_csv with the same table and         *)
(* temp_dir against the same server leaves the file with the content the     *)
(* first call left (nothing is appended) and returns the same result; a      *)
(* second call of fetch_all_ids_from_api returns the same list, element for  *)
(* element.                                                                  *)
C18_Idempotent ==
    /\ dl_pc = "done" =>
        \A k \in 1..Len(dl_runs) :
            dl_runs[k] = [result |-> dl_result, file |-> csv_file]
    /\ fa_pc = "done" =>
        \A k \in 1..Len(fa_runs) :
            fa_runs[k] = [exit |-> fa_exit, ids |-> FetchIdsResult]

\* the second call of download_table_csv over two pages with rows is done
C18_Witness ==
    /\ dl_pc = "done"
    /\ Len(dl_runs) = 1
    /\ dl_result = "path"
    /\ Len(dl_requests) = 2
    /\ dl_page_written[1] # << >>
    /\ dl_page_written[2] # << >>
    /\ dl_runs[1].file = csv_file

\* the second call of fetch_all_ids_from_api is done and returned IDs
C18_IdsWitness ==
    /\ fa_pc = "done"
    /\ Len(fa_runs) = 1
    /\ Len(FetchIdsResult) > 1

(* C19: whatever a page request gives (success, a non-success status, a     *)
(* network failure, a body that cannot be parsed) and whether or not the     *)
(* destination file can be opened, download_table_csv returns a path or      *)
(* None and fetch_all_ids_from_api and fetch_prospect_ids_from_activities    *)
(* return a list: no exception leaves them.                                  *)
C19_NoExceptionEscapes ==
    /\ dl_result \in {"pending", "path", "none"}
    /\ fa_exit \in {"pending", "return_all_ids", "return_empty"}
    /\ pa_exit \in {"pending", "return_list"}
    /\ dl_pc \in {"done", "returned"} => dl_result \in {"path", "none"}
    /\ dl_exc # None => dl_pc \in {"done", "returned"} /\ dl_result = "none"
    /\ fa_pc = "done" => fa_exit \in {"return_all_ids", "return_empty"}
    /\ fa_exc # None => fa_pc = "done" /\ fa_exit = "return_empty"
    /\ pa_pc = "done" => pa_exit = "return_list"
    /\ pa_exc # None => pa_pc = "done"

\* open raised and download_table_csv returned None
C19_Witness ==
    /\ dl_exc = Some("OSError")
    /\ dl_pc = "done"
    /\ dl_result = "none"

\* a body that cannot be parsed, in the two other functions
C19_ParseWitness == fa_exc = Some("ParserError") /\ fa_exit = "return_empty"

C19_JsonWitness == pa_exc = Some("JSONDecodeError") /\ pa_exit = "return_list"

\* the number of times t is in q
CountIn(t, q) == Cardinality({k \in 1..Len(q) : q[k] = t})

(* C20: once the configuration is valid the batch main processes every      *)
(* table of TABLES, in list order, whether the tables before returned False  *)
(* or raised; at the end every table is in exactly one of successful_tables  *)
(* and failed_tables, and the exit code is 0 exactly when failed_tables is   *)
(* empty.                                                                    *)
C20_EveryTableProcessed ==
    (bt_config = "valid" /\ bt_pc \in {"loop", "exit"}) =>
        /\ Len(bt_processed) <= Len(TABLES)
        /\ \A k \in 1..Len(bt_processed) :
            /\ bt_processed[k].table = TABLES[k]
            /\ CountIn(TABLES[k], successful_tables)
                    + CountIn(TABLES[k], failed_tables) = 1
            /\ CountIn(TABLES[k], successful_tables) = 1
                    <=> bt_processed[k].result = "True"
        /\ Len(successful_tables) + Len(failed_tables) = Len(bt_processed)
        /\ bt_pc = "exit" =>
            /\ Len(bt_processed) = Len(TABLES)
            /\ exit_code \in {Some(0), Some(1)}
            /\ exit_code = Some(0) <=> failed_tables = << >>

\* the first table raised, the third returned False, the others were loaded
C20_Witness ==
    /\ bt_pc = "exit"
    /\ bt_config = "valid"
    /\ Len(bt_processed) = 4
    /\ bt_processed[1].result = "raised"
    /\ bt_processed[3].result = "False"
    /\ successful_tables = <<"Residents", "DepositTransactions">>
    /\ failed_tables = <<"Prospects", "Activities">>
    /\ exit_code = Some(1)

\* every table was loaded
C20_AllLoaded ==
    /\ bt_pc = "exit"
    /\ successful_tables = TABLES
    /\ exit_code = Some(0)

-----------------------------------------------------------------------------
(* Claims about the export batch *)

\* main of the export batch has ended after it got a connection and accepted
\* the selection of tables
ExportRan == ex_pc = "ended" /\ ex_connect_ok /\ ex_end # "sys_exit_1"

\* the tables of the iterations of the loop, in order
Attempted == [k \in 1..Len(ex_iterations) |-> ex_iterations[k].table]

\* the positions of tables_to_run whose creation or load raises
Raising ==
    {k \in 1..Len(tables_to_run) : ex_plan[k] \in {"create_raises", "write_raises"}}

FirstRaising == CHOOSE k \in Raising : \A j \in Raising : k <= j

\* C21 as stated: whatever fails for a table, processing continues with the
\* next table, so that every table of tables_to_run is attempted when main
\* ends
C21_EveryTableAttempted == ExportRan => Attempted = tables_to_run

\* C21: a fetch that returns [] and a write_pandas that reports no success
\* leave the loop running; an exception of the creation or the load ends
\* main: the tables attempted are those of tables_to_run up to and including
\* the first whose creation or load raises, all of them when none raises
C21_AttemptedUpToFirstRaise ==
    ExportRan =>
        IF Raising = {}
        THEN Attempted = tables_to_run /\ ex_end = "returned"
        ELSE Attempted = SubSeq(tables_to_run, 1, FirstRaising) /\ ex_end = "raised"

\* the creation of the first of two tables raised and main ended
C21_Witness ==
    /\ ExportRan
    /\ ex_end = "raised"
    /\ Len(tables_to_run) = 2
    /\ Len(ex_iterations) = 1

\* a table whose fetch returned [] and one whose write_pandas reported no
\* success were followed by the next table
C21_ContinuesWitness ==
    /\ ExportRan
    /\ ex_end = "returned"
    /\ \E k \in 1..Len(ex_iterations) :
          /\ k < Len(ex_iterations)
          /\ ex_plan[k] \in {"fetch_empty", "write_unsuccessful"}

\* C25: once main has a connection, the connection is closed exactly once
\* before main ends, on normal completion, on an invalid table name (no table
\* is processed then) and on an exception of create_table_and_load_data; it
\* is not closed while main runs, and nothing is closed without a connection
C25_ConnectionClosedOnce ==
    /\ (ex_pc = "ended" /\ ex_connect_ok) => (ex_closes = 1 /\ ex_conn = "closed")
    /\ (ex_pc \in {"select", "loop"}) => (ex_closes = 0 /\ ex_conn = "open")
    /\ (ex_pc = "ended" /\ ~ex_connect_ok) => (ex_closes = 0 /\ ex_conn = "none")
    /\ ex_end = "sys_exit_1" => ex_iterations = << >>

\* main ended by an exception of create_table_and_load_data after a table
\* was loaded
C25_Witness ==
    /\ ex_pc = "ended"
    /\ ex_end = "raised"
    /\ Len(ex_iterations) = 2

\* main ended by sys.exit(1) on an invalid name
C25_ExitWitness == ex_pc = "ended" /\ ex_end = "sys_exit_1" /\ Len(tables_to_run) = 2

\* main ended after the last of the twelve tables
C25_NormalWitness ==
    ex_pc = "ended" /\ ex_end = "returned" /\ Len(ex_iterations) = Len(TABLES_TO_PROCESS)

\* C26: create_table_and_load_data is never called with an empty ID list;
\* for a table whose fetch returned [] no warehouse statement is executed and
\* the rows of the table are those it had before
C26_NoLoadWithEmptyIds ==
    /\ \A k \in 1..Len(ex_load_calls) : ex_load_calls[k].ids # << >>
    /\ \A k \in 1..Len(ex_iterations) :
          ex_iterations[k].ids = << >> =>
              /\ ex_iterations[k].statements = << >>
              /\ ex_iterations[k].after = ex_iterations[k].before

\* the fetch of a table returned [], the table kept its rows, and the next
\* table was loaded
C26_Witness ==
    /\ Len(ex_iterations) = 2
    /\ ex_iterations[1].ids = << >>
    /\ ex_iterations[1].after = PreviousRows
    /\ ex_iterations[2].table # ex_iterations[1].table
    /\ ex_iterations[2].statements = <<"create_or_replace_table", "write_pandas">>
    /\ warehouse[CHOOSE v \in 1..Len(valid_tables) :
                    valid_tables[v] = ex_iterations[1].table] = PreviousRows

-----------------------------------------------------------------------------
(* Claims about the three steps of a table *)

\* the positions of the calls of a helper in ps_calls
CallsOf(step) == {k \in 1..Len(ps_calls) : ps_calls[k].step = step}

\* every step that a flag enables was run and succeeded
EveryEnabledStepSucceeded ==
    /\ api_download =>
          \E k \in CallsOf("download_table_csv") :
              ps_calls[k].result = "path" /\ ps_calls[k].exists
                  /\ ps_calls[k].file_size # 0
    /\ blob_upload =>
          \E k \in CallsOf("upload_to_azure_blob") : ps_calls[k].result = "True"
    /\ snowflake_load =>
          \E k \in CallsOf("load_data_to_snowflake") : ps_calls[k].result = "True"

\* C22: for every combination of the flags, process_table returns True if
\* every enabled step succeeded and False otherwise: a boolean on every path
C22_ReturnsBoolean ==
    (ps_program = "main" /\ ps_pc = "ended") =>
        ps_return = IF EveryEnabledStepSucceeded THEN "True" ELSE "False"

\* the download and the upload succeeded, the load is disabled, and
\* process_table ended without a return value
C22_NoneReturned ==
    /\ ps_program = "main"
    /\ ps_pc = "ended"
    /\ api_download /\ blob_upload /\ ~snowflake_load
    /\ EveryEnabledStepSucceeded
    /\ ps_return = "None"

\* with the three flags on, what the steps return is what ProcessTableResult
\* gives for the same download and the same later outcome
LaterOf ==
    IF ps_upload = "key_error" THEN "upload_raises"
    ELSE IF ps_upload = "fails" THEN "upload_fails"
    ELSE IF ~ps_sql_exists \/ ~ps_snowflake_config THEN "sql_file_missing"
    ELSE IF ps_load = "fails" THEN "load_fails"
    ELSE IF ps_load = "raises" THEN "load_raises"
    ELSE "ok"

StepsAgreeWithProcessTableResult ==
    (ps_pc = "ended" /\ api_download /\ blob_upload /\ snowflake_load
        /\ (Truthy(ps_download.csv_file_path) => ps_download.exists)) =>
        ps_return = IF ps_program = "main"
                    THEN ProcessTableResult(ps_download.csv_file_path,
                                            ps_download.file_size, LaterOf)
                    ELSE ArchiveTableResult(ps_download.csv_file_path,
                                            ps_download.file_size, LaterOf)

\* C24: with the three steps enabled, the helpers are called in the order
\* download, upload, load, each at most once; the upload is called only
\* after the download returned a path to an existing file of non-zero size,
\* the load only after the upload returned success; no upload and no load
\* follows a failed or empty download
C24_StepsInOrder ==
    (ps_pc # "idle" /\ api_download /\ blob_upload /\ snowflake_load) =>
        /\ \E n \in 0..3 :
              [k \in 1..Len(ps_calls) |-> ps_calls[k].step] =
                  SubSeq(<<"download_table_csv", "upload_to_azure_blob",
                           "load_data_to_snowflake">>, 1, n)
        /\ \A u \in CallsOf("upload_to_azure_blob") :
              \E d \in CallsOf("download_table_csv") :
                  /\ d < u
                  /\ ps_calls[d].result = "path"
                  /\ ps_calls[d].exists
                  /\ ps_calls[d].file_size # 0
        /\ \A l \in CallsOf("load_data_to_snowflake") :
              \E u \in CallsOf("upload_to_azure_blob") :
                  u < l /\ ps_calls[u].result = "True"
        /\ \A d \in CallsOf("download_table_csv") :
              (ps_calls[d].result = "None" \/ ~ps_calls[d].exists
                  \/ ps_calls[d].file_size = 0) => Len(ps_calls) = 1

\* the three helpers were called, and the load came last
C24_Witness ==
    /\ ps_pc = "ended"
    /\ api_download /\ blob_upload /\ snowflake_load
    /\ Len(ps_calls) = 3
    /\ ps_calls[3].step = "load_data_to_snowflake"

\* the download gave the path of an empty file and nothing else was called
C24_EmptyWitness ==
    /\ ps_pc = "ended"
    /\ api_download /\ blob_upload /\ snowflake_load
    /\ Len(ps_calls) = 1
    /\ ps_calls[1].result = "path"
    /\ ps_calls[1].file_size = 0
    /\ ps_return = "False"

-----------------------------------------------------------------------------
(* Claims about fetches running at the same time *)

\* what call c produces when no other call runs
Alone(c) ==
    IF cc_kind = "download" THEN AloneFile(cc_pages[c], Len(cc_pages[c]))
    ELSE AloneIds(cc_pages[c], Len(cc_pages[c]))

SameAsAlone(c) == cc_call[c].pc = "returned" => cc_call[c].product = Some(Alone(c))

\* C23: for any interleaving of two fetches (two download_table_csv calls,
\* the same table name in the same temp_dir included, or two
\* fetch_all_ids_from_api calls), each call produces at its return the file
\* content or ID list it produces alone
C23_SameAsAlone == cc_call # << >> => \A c \in Calls : SameAsAlone(c)

\* two downloads of the same pages to the same file: a call returned the
\* path of a file that starts with a hole
C23_HoleInFile ==
    /\ cc_call # << >>
    /\ cc_kind = "download" /\ cc_same_dest
    /\ cc_pages[1] = cc_pages[2]
    /\ \E c \in Calls :
          /\ cc_call[c].pc = "returned"
          /\ cc_call[c].product # Some(Alone(c))
          /\ cc_call[c].product[1][1] = Nul

\* two downloads to different files, and two fetch_all_ids_from_api calls,
\* do produce what they produce alone
C23_SeparateFetches ==
    (cc_call # << >> /\ (cc_kind = "ids" \/ ~cc_same_dest)) =>
        \A c \in Calls : SameAsAlone(c)

=============================================================================
